---- MODULE Spec2Model ----
(***************************************************************************)
(* Model of lazy-release/changesets: the cascade engine of version.ts      *)
(* (cascadeVersionUpdates), the snapshot engine of snapshot.ts             *)
(* (cascadeDependents, backup / update / publish / restore) and the pure   *)
(* helpers they call.                                                      *)
(*                                                                         *)
(* Strings.  A version string is represented by the list of its            *)
(* dot-separated segments ("1.0.2" is <<"1","0","2">>, the range "^1.0.2"   *)
(* is <<"^1","0","2">>, "workspace:*" is <<"workspace:*">>), so that       *)
(* version.split(".") is the list itself and a template string             *)
(* `${x}.${y}.${z}` is <<Str(x),Str(y),Str(z)>>.  Number() and number      *)
(* formatting are tables over the segment texts.                           *)
(***************************************************************************)
EXTENDS Integers, Sequences, FiniteSets, TLC

VARIABLES
  \* ---- the dependency graph (version.ts DependencyGraph) ----
  packages,        \* graph.packages: name -> [version, packageJson]
  dependents,      \* graph.dependents: name -> list of dependents (Set, insertion order)
  \* ---- cascadeVersionUpdates (version.ts:234-299) ----
  initialUpdates,  \* name -> [version, releaseType]
  updatePolicy,    \* "none" | "patch" | "minor" | "major"
  allUpdates,      \* name -> UpdateResult
  processed,       \* set of names
  queue,           \* list of [packageName, releaseType]
  cpc,             \* position in cascadeVersionUpdates
  expanded,        \* history: how many times a package's dependents were walked
  writes,          \* history: how many times allUpdates.set was called for a name
  updateOrder,     \* the keys of allUpdates in Map insertion order
  \* ---- cascadeDependents (snapshot.ts:35-60) ----
  affectedPackages,     \* Set of names, in insertion order
  allPackagesToUpdate,  \* allPackages: Set of names, in insertion order
  dqueue,               \* queue
  dprocessed,           \* processed
  dpc,                  \* position in cascadeDependents
  \* ---- snapshot (snapshot.ts:139-323) ----
  dirExists,        \* existsSync(".changeset")
  changesetFiles,   \* the changeset documents found, each the list of names it declares
  dryRun,
  disk,             \* manifest path -> file content
  snapshotVersion,
  backups,          \* list of [name, path, content], in Map insertion order
  spc,              \* position in snapshot()
  sidx,             \* index of the publish loop
  results,          \* [success, failed]
  publishLog,       \* history: the calls of publishToNpm
  pendingError,     \* the error caught at line 315
  raisedError,      \* the error snapshot() raised to its caller
  restoreLog,       \* history: the files restorePackageJsonFiles tried to write
  reported,         \* history: the files whose restore failure was printed
  faults,           \* number of I/O failures so far
  origDisk,         \* history: the disk before the run
  \* ---- version (version.ts:387-561) ----
  changesetDocs,      \* the changeset documents found by the glob, as line lists
  configTypes,        \* config.lazyChangesets.types
  install,            \* the install option
  packageReleases,    \* package name (token list) -> list of releases
  packageChangelogs,  \* package name (token list) -> list of document indices
  changelogs,         \* package name -> content of its CHANGELOG.md (list of sections)
  origChangelogs,     \* history: the changelogs before the run
  updatedPackages,    \* list of names
  verLog,             \* history: the updates printed at lines 493-497
  deletedDocs,        \* history: indices of the documents unlinked, in order
  installLog,         \* history: the install commands run
  vpc,                \* position in version()
  vidx,               \* index of the loop version() is in
  \* ---- publish (publish.ts) ----
  pubRevision,      \* which of the two revisions of publish.ts runs
  pubPackages,      \* the packages findPackages returned
  pubDryRun,        \* the dryRun option
  pubResults,       \* results: [success, failed]
  pubLog,           \* history: the steps attempted, [name, step, ok]
  pubRaised,        \* the error publish() raised to its caller
  ppc,              \* position in publish()
  pidx,             \* index of the publish loop
  \* ---- a call of one of the pure functions of version.ts ----
  fnArgs,           \* the arguments of the call
  fnResult,         \* what the call returned or raised
  fpc               \* "idle" | "called" | "returned"

graphVars == <<packages, dependents>>
cascadeVars == <<initialUpdates, updatePolicy, allUpdates, processed, queue, cpc,
                 expanded, writes, updateOrder>>
depVars == <<affectedPackages, allPackagesToUpdate, dqueue, dprocessed, dpc>>

snapVars == <<dirExists, changesetFiles, dryRun, disk, snapshotVersion, backups,
              spc, sidx, results, publishLog, pendingError, raisedError,
              restoreLog, reported, faults, origDisk>>

verVars == <<changesetDocs, configTypes, install, packageReleases, packageChangelogs,
             changelogs, origChangelogs, updatedPackages, verLog, deletedDocs,
             installLog, vpc, vidx>>

\* the variables of the commands modelled after the cascade and the snapshot
pubVars == <<pubRevision, pubPackages, pubDryRun, pubResults, pubLog, pubRaised,
             ppc, pidx>>

fnVars == <<fnArgs, fnResult, fpc>>

\* the variables of publish() and of the pure-function calls
laterVars == <<pubVars, fnVars>>

addedVars == <<verVars, laterVars>>

vars == <<graphVars, cascadeVars, depVars, snapVars, addedVars>>

\* ------------------------------------------------------------------------
\* Bounds
\* ------------------------------------------------------------------------
\* at most this many packages carry a changeset
MaxSeeds == 2
\* at most this many changeset documents
MaxFiles == 2
\* at most this many I/O failures in one run
MaxFaults == 2

\* ------------------------------------------------------------------------
\* Names, manifests
\* ------------------------------------------------------------------------
\* manifests found by the glob, in glob order
PkgOrder == <<"a", "b", "c", "d">>
Pkgs == {PkgOrder[i] : i \in 1..Len(PkgOrder)}
\* a name that no manifest declares (external package / unknown package)
Ghost == "x"
NameOrder == PkgOrder \o <<Ghost>>
Names == Pkgs \cup {Ghost}

DepTypes == <<"dependencies", "devDependencies", "peerDependencies">>

EmptyMap == [n \in {} |-> <<>>]

\* the keys of a map, in the order of an enclosing list
RECURSIVE KeysInOrder(_, _)
KeysInOrder(order, keys) ==
  IF order = <<>> THEN <<>>
  ELSE (IF Head(order) \in keys THEN <<Head(order)>> ELSE <<>>)
       \o KeysInOrder(Tail(order), keys)

\* ------------------------------------------------------------------------
\* Number(), template formatting, bumpVersion
\* ------------------------------------------------------------------------
Numerals == <<"0", "1", "2", "3", "4", "5", "6", "7", "8", "9", "10", "11", "12">>

NaN == [nan |-> TRUE, n |-> 0]

\* JavaScript Number(text) on a segment text
Number(s) ==
  IF \E i \in 1..Len(Numerals) : Numerals[i] = s
    THEN [nan |-> FALSE, n |-> (CHOOSE i \in 1..Len(Numerals) : Numerals[i] = s) - 1]
  ELSE IF s = "" THEN [nan |-> FALSE, n |-> 0]
  ELSE IF s = "-1" THEN [nan |-> FALSE, n |-> -1]
  ELSE NaN

\* `${n}`
Str(n) == IF n = -1 THEN "-1" ELSE Numerals[n + 1]

Threw(msg) == [threw |-> TRUE, value |-> <<msg>>]
Returned(v) == [threw |-> FALSE, value |-> v]

\* bumpVersion with a minor bump that keeps the patch segment
bumpVersionKeepsPatch(version, releaseType, isBreaking) ==
  LET parts == [i \in 1..Len(version) |-> Number(version[i])] IN
  IF Len(parts) # 3 \/ \E i \in 1..Len(parts) : parts[i].nan
    THEN Threw("Invalid version format")
  ELSE CASE releaseType = "major" ->
              IF isBreaking /\ parts[1].n = 0
                THEN Returned(<<Str(parts[1].n), Str(parts[2].n + 1), "0">>)
                ELSE Returned(<<Str(parts[1].n + 1), "0", "0">>)
         [] releaseType = "minor" ->
              Returned(<<Str(parts[1].n), Str(parts[2].n + 1), Str(parts[3].n)>>)
         [] releaseType = "patch" ->
              Returned(<<Str(parts[1].n), Str(parts[2].n), Str(parts[3].n + 1)>>)

bumpVersion(version, releaseType, isBreaking) ==
  LET parts == [i \in 1..Len(version) |-> Number(version[i])] IN
  IF Len(parts) # 3 \/ \E i \in 1..Len(parts) : parts[i].nan
    THEN Threw("Invalid version format")
  ELSE CASE releaseType = "major" ->
              IF isBreaking /\ parts[1].n = 0
                THEN Returned(<<Str(parts[1].n), Str(parts[2].n + 1), "0">>)
                ELSE Returned(<<Str(parts[1].n + 1), "0", "0">>)
         [] releaseType = "minor" ->
              Returned(<<Str(parts[1].n), Str(parts[2].n + 1), "0">>)
         [] releaseType = "patch" ->
              Returned(<<Str(parts[1].n), Str(parts[2].n), Str(parts[3].n + 1)>>)

\* ------------------------------------------------------------------------
\* buildDependencyGraph
\* ------------------------------------------------------------------------
\* { ...dependencies, ...devDependencies, ...peerDependencies } : the key set
AllDeps(packageJson) ==
  DOMAIN packageJson.dependencies \cup DOMAIN packageJson.devDependencies
    \cup DOMAIN packageJson.peerDependencies

\* the manifest file of package n, as the glob returns it
PathOf(n) == <<"packages", n, "package.json">>

\* manifests: name -> packageJson (every manifest here has a name)
GraphPackages(manifests) ==
  [n \in DOMAIN manifests |-> [version |-> manifests[n].version,
                               path |-> PathOf(n),
                               packageJson |-> manifests[n]]]

\* dependents.get(depName): the packages whose manifest names depName, in the
\* iteration order of the packages map; only internal names get an entry
GraphDependents(manifests) ==
  LET internal == DOMAIN manifests
      hasDep(n) == {p \in internal : n \in AllDeps(manifests[p])}
  IN [n \in {m \in internal : hasDep(m) # {}} |-> KeysInOrder(PkgOrder, hasDep(n))]

\* ------------------------------------------------------------------------
\* shouldUpdateDependency
\* ------------------------------------------------------------------------
\* policy major taken one level too low
shouldUpdateDependencyLoose(policy, releaseType) ==
  IF policy = "none" THEN FALSE
  ELSE IF policy = "patch" THEN TRUE
  ELSE IF policy = "minor" THEN releaseType = "minor" \/ releaseType = "major"
  ELSE IF policy = "major" THEN releaseType = "minor" \/ releaseType = "major"
  ELSE FALSE

\* policy minor forgets the major bump
shouldUpdateDependencyStrict(policy, releaseType) ==
  IF policy = "none" THEN FALSE
  ELSE IF policy = "patch" THEN TRUE
  ELSE IF policy = "minor" THEN releaseType = "minor"
  ELSE IF policy = "major" THEN releaseType = "major"
  ELSE FALSE

\* policy patch gated like policy minor
shouldUpdateDependencyPatchGated(policy, releaseType) ==
  IF policy = "none" THEN FALSE
  ELSE IF policy = "patch" THEN releaseType = "minor" \/ releaseType = "major"
  ELSE IF policy = "minor" THEN releaseType = "minor" \/ releaseType = "major"
  ELSE IF policy = "major" THEN releaseType = "major"
  ELSE FALSE

shouldUpdateDependency(policy, releaseType) ==
  IF policy = "none" THEN FALSE
  ELSE IF policy = "patch" THEN TRUE
  ELSE IF policy = "minor" THEN releaseType = "minor" \/ releaseType = "major"
  ELSE IF policy = "major" THEN releaseType = "major"
  ELSE FALSE

\* ------------------------------------------------------------------------
\* Inputs of the cascade: manifests, changeset-driven updates, policy
\* ------------------------------------------------------------------------
ReleaseTypes == {"patch", "minor", "major"}
Policies == {"none", "patch", "minor", "major"}

\* the internal dependencies a manifest of the fixture may declare, as
\* (dependent, dependency): the cycle a -> b -> c -> a, the diamond
\* (a and d depend on b, c depends on a and d) and the two-cycle a <-> b
Edges == {<<"a", "b">>, <<"b", "c">>, <<"c", "a">>,
          <<"d", "b">>, <<"c", "d">>, <<"b", "a">>}

\* the manifest section in which a package of the fixture lists its
\* internal dependencies
DepTypeOf(p) ==
  IF p = "b" THEN "devDependencies"
  ELSE IF p = "c" THEN "peerDependencies"
  ELSE "dependencies"

ValidVersions == [a |-> <<"1", "0", "0">>, b |-> <<"0", "1", "2">>,
                  c |-> <<"2", "3", "9">>, d |-> <<"0", "0", "1">>]
\* "1.x": two segments, one of them not a number
InvalidVersion == <<"1", "x">>

DepsOf(p, es, depType) ==
  IF DepTypeOf(p) = depType
    THEN [q \in {e[2] : e \in {f \in es : f[1] = p}} |-> <<"^1", "0", "0">>]
    ELSE EmptyMap

\* the manifests of a repository whose internal dependencies are es
Manifests(es, badD) ==
  [p \in Pkgs |->
     [version |-> IF p = "d" /\ badD THEN InvalidVersion ELSE ValidVersions[p],
      private |-> FALSE,
      dependencies |-> DepsOf(p, es, "dependencies"),
      devDependencies |-> DepsOf(p, es, "devDependencies"),
      peerDependencies |-> DepsOf(p, es, "peerDependencies")]]

\* the version a changeset gives a package: version.ts:440-448 for a package
\* of the graph with a valid version, any text otherwise
SeedVersion(manifests, n, rt) ==
  IF n \in DOMAIN manifests /\ ~bumpVersion(manifests[n].version, rt, FALSE).threw
    THEN bumpVersion(manifests[n].version, rt, FALSE).value
    ELSE <<"7", "0", "0">>

\* ------------------------------------------------------------------------
\* cascadeVersionUpdates
\* ------------------------------------------------------------------------
UpdateResult(name, old, new, rt, reason) ==
  [packageName |-> name, oldVersion |-> old, newVersion |-> new,
   releaseType |-> rt, reason |-> reason]

\* m with m[k] set to v (Map.set)
MapSet(m, k, v) == [x \in DOMAIN m \cup {k} |-> IF x = k THEN v ELSE m[x]]

\* lines 244-257: one pass over initialUpdates in map order; set lists the
\* names allUpdates.set was called for
RECURSIVE SeedLoop(_, _, _, _, _)
SeedLoop(order, initial, pkgs, upd, q) ==
  IF order = <<>> THEN [allUpdates |-> upd, queue |-> q]
  ELSE LET pkgName == Head(order) IN
       IF pkgName \notin DOMAIN pkgs
         THEN SeedLoop(Tail(order), initial, pkgs, upd, q)
         ELSE SeedLoop(Tail(order), initial, pkgs,
                MapSet(upd, pkgName,
                       UpdateResult(pkgName, pkgs[pkgName].version,
                                    initial[pkgName].version,
                                    initial[pkgName].releaseType, "changeset")),
                Append(q, [packageName |-> pkgName,
                           releaseType |-> initial[pkgName].releaseType]))

\* line 262
IsProcessed(proc, name) == name \in proc

\* a single seen-set: the dependent is skipped only when it was processed
SkipsDependentByProcessed(initial, policy, upd, pkgs, current, depName) ==
  \/ depName \in processed
  \/ ~shouldUpdateDependency(policy, current.releaseType)
  \/ depName \notin DOMAIN pkgs

\* the check of line 277 left out
SkipsDependentNoResultCheck(initial, policy, upd, pkgs, current, depName) ==
  \/ depName \in DOMAIN initial
  \/ ~shouldUpdateDependency(policy, current.releaseType)
  \/ depName \notin DOMAIN pkgs

\* lines 271-280: the dependent is skipped
SkipsDependent(initial, policy, upd, pkgs, current, depName) ==
  \/ depName \in DOMAIN initial
  \/ ~shouldUpdateDependency(policy, current.releaseType)
  \/ depName \in DOMAIN upd
  \/ depName \notin DOMAIN pkgs

\* lines 269-295: the for loop over the dependents of current; a throw of
\* bumpVersion leaves the loop at once.  set lists the names allUpdates.set
\* was called for.
RECURSIVE DependentsLoop(_, _, _, _, _, _, _, _)
DependentsLoop(names, initial, policy, pkgs, current, upd, q, set) ==
  IF names = <<>> THEN [threw |-> FALSE, allUpdates |-> upd, queue |-> q, set |-> set]
  ELSE LET depName == Head(names) IN
       IF SkipsDependent(initial, policy, upd, pkgs, current, depName)
         THEN DependentsLoop(Tail(names), initial, policy, pkgs, current, upd, q, set)
       ELSE LET bumped == bumpVersion(pkgs[depName].version, "patch", FALSE) IN
            IF bumped.threw
              THEN [threw |-> TRUE, allUpdates |-> upd, queue |-> q, set |-> set]
              ELSE DependentsLoop(Tail(names), initial, policy, pkgs, current,
                     MapSet(upd, depName,
                            UpdateResult(depName, pkgs[depName].version,
                                         bumped.value, "patch", "dependency")),
                     Append(q, [packageName |-> depName, releaseType |-> "patch"]),
                     Append(set, depName))

\* the head is read and left on the queue
ShiftKeepsHead(q) == [current |-> Head(q), rest |-> q]

\* line 261: queue.shift()
Shift(q) == [current |-> Head(q), rest |-> Tail(q)]

\* lines 260-296: one iteration of the while loop on queue q; walked is the
\* set of packages whose dependents this iteration walks
CascadeIteration(q, proc, upd) ==
  LET current == Shift(q).current
      rest == Shift(q).rest
      name == current.packageName
  IN IF IsProcessed(proc, name)
       THEN [threw |-> FALSE, queue |-> rest, processed |-> proc,
             allUpdates |-> upd, walked |-> {}, set |-> <<>>]
     ELSE IF name \notin DOMAIN dependents
       THEN [threw |-> FALSE, queue |-> rest, processed |-> proc \cup {name},
             allUpdates |-> upd, walked |-> {name}, set |-> <<>>]
     ELSE LET r == DependentsLoop(dependents[name], initialUpdates, updatePolicy,
                                  packages, current, upd, rest, <<>>)
          IN [threw |-> r.threw, queue |-> r.queue, processed |-> proc \cup {name},
              allUpdates |-> r.allUpdates, walked |-> {name}, set |-> r.set]

\* ------------------------------------------------------------------------
\* Specification of cascadeVersionUpdates
\* ------------------------------------------------------------------------
\* cascadeDependents is not running
DepIdle ==
  /\ affectedPackages = <<>>
  /\ allPackagesToUpdate = <<>>
  /\ dqueue = <<>>
  /\ dprocessed = {}
  /\ dpc = "idle"

\* no error
NoError == <<>>

\* snapshot() is not running
SnapIdle ==
  /\ dirExists = TRUE
  /\ changesetFiles = <<>>
  /\ dryRun = FALSE
  /\ disk = EmptyMap
  /\ snapshotVersion = <<>>
  /\ backups = <<>>
  /\ spc = "idle"
  /\ sidx = 0
  /\ results = [success |-> 0, failed |-> 0]
  /\ publishLog = <<>>
  /\ pendingError = NoError
  /\ raisedError = NoError
  /\ restoreLog = <<>>
  /\ reported = <<>>
  /\ faults = 0
  /\ origDisk = EmptyMap

\* cascadeVersionUpdates is not running
CascadeIdle ==
  /\ initialUpdates = EmptyMap
  /\ updatePolicy = "none"
  /\ allUpdates = EmptyMap
  /\ processed = {}
  /\ queue = <<>>
  /\ cpc = "idle"
  /\ expanded = [n \in Names |-> 0]
  /\ writes = [n \in Names |-> 0]
  /\ updateOrder = <<>>

\* version() is not running
VerIdle ==
  /\ changesetDocs = <<>>
  /\ configTypes = <<>>
  /\ install = FALSE
  /\ packageReleases = EmptyMap
  /\ packageChangelogs = EmptyMap
  /\ changelogs = EmptyMap
  /\ origChangelogs = EmptyMap
  /\ updatedPackages = <<>>
  /\ verLog = <<>>
  /\ deletedDocs = <<>>
  /\ installLog = <<>>
  /\ vpc = "idle"
  /\ vidx = 0

\* publish() is not running
PubIdle ==
  /\ pubRevision = "none"
  /\ pubPackages = <<>>
  /\ pubDryRun = FALSE
  /\ pubResults = [success |-> 0, failed |-> 0]
  /\ pubLog = <<>>
  /\ pubRaised = <<>>
  /\ ppc = "idle"
  /\ pidx = 0

\* no pure function is being called
FnIdle ==
  /\ fnArgs = <<>>
  /\ fnResult = <<>>
  /\ fpc = "idle"

\* number of occurrences of n in the list l
Count(l, n) == Cardinality({i \in 1..Len(l) : l[i] = n})

CascadeInit ==
  \E es \in SUBSET Edges,
     badD \in BOOLEAN,
     seeds \in {x \in SUBSET Names : Cardinality(x) <= MaxSeeds},
     policy \in Policies :
    \E rts \in [seeds -> ReleaseTypes] :
      LET manifests == Manifests(es, badD) IN
      /\ packages = GraphPackages(manifests)
      /\ dependents = GraphDependents(manifests)
      /\ initialUpdates =
           [n \in seeds |-> [version |-> SeedVersion(manifests, n, rts[n]),
                             releaseType |-> rts[n]]]
      /\ updatePolicy = policy
      /\ allUpdates = EmptyMap
      /\ processed = {}
      /\ queue = <<>>
      /\ cpc = "seed"
      /\ expanded = [n \in Names |-> 0]
      /\ writes = [n \in Names |-> 0]
      /\ updateOrder = <<>>
      /\ DepIdle
      /\ SnapIdle
      /\ VerIdle /\ PubIdle /\ FnIdle

\* lines 239-257
CascadeSeed ==
  /\ cpc = "seed"
  /\ LET r == SeedLoop(KeysInOrder(NameOrder, DOMAIN initialUpdates),
                       initialUpdates, packages, EmptyMap, <<>>)
     IN /\ allUpdates' = r.allUpdates
        /\ queue' = r.queue
        /\ writes' = [n \in Names |->
                        writes[n] + Count([i \in 1..Len(r.queue) |->
                                             r.queue[i].packageName], n)]
        /\ updateOrder' = [i \in 1..Len(r.queue) |-> r.queue[i].packageName]
  /\ cpc' = "loop"
  /\ UNCHANGED <<packages, dependents, initialUpdates, updatePolicy, processed,
                 expanded, depVars, snapVars, addedVars>>

\* lines 260-296, one iteration
CascadeStep ==
  /\ cpc = "loop"
  /\ queue # <<>>
  /\ LET r == CascadeIteration(queue, processed, allUpdates)
     IN /\ queue' = r.queue
        /\ processed' = r.processed
        /\ allUpdates' = r.allUpdates
        /\ expanded' = [n \in Names |->
                          IF n \in r.walked THEN expanded[n] + 1 ELSE expanded[n]]
        /\ writes' = [n \in Names |-> writes[n] + Count(r.set, n)]
        /\ updateOrder' = updateOrder \o r.set
        /\ cpc' = IF r.threw THEN "raised" ELSE "loop"
  /\ UNCHANGED <<packages, dependents, initialUpdates, updatePolicy, depVars, snapVars,
                 addedVars>>

\* line 298
CascadeReturn ==
  /\ cpc = "loop"
  /\ queue = <<>>
  /\ cpc' = "done"
  /\ UNCHANGED <<packages, dependents, initialUpdates, updatePolicy, allUpdates,
                 processed, queue, expanded, writes, updateOrder, depVars, snapVars,
                 addedVars>>

Init == CascadeInit

Next == CascadeSeed \/ CascadeStep \/ CascadeReturn

Spec == Init /\ [][Next]_vars

\* ------------------------------------------------------------------------
\* Properties of cascadeVersionUpdates
\* ------------------------------------------------------------------------
CascadeEnded == cpc \in {"done", "raised"}

\* queue entries left, plus two for every package not yet in the result
CascadeVariant == Len(queue) + 2 * Cardinality(DOMAIN packages \ DOMAIN allUpdates)

\* C1: cascadeVersionUpdates terminates on every dependency graph, cyclic
\* ones included, for every policy and every set of changeset packages:
\* every iteration of the while loop strictly decreases a natural-number
\* variant (so the loop runs at most CascadeVariant times), the queue is
\* empty when the function returns, and no package's dependents are walked
\* more than once.
C1_CascadeTerminates ==
  /\ [](/\ CascadeVariant \in Nat
        /\ (cpc = "done" => queue = <<>>)
        /\ \A n \in Names : expanded[n] <= 1)
  /\ [][cpc = "loop" /\ queue # <<>> => CascadeVariant' < CascadeVariant]_vars

\* the cascade returned, having gone round a dependency cycle: a, b and c
\* depend on each other in a ring, only a has a changeset, policy patch
C1_Witness ==
  /\ cpc = "done"
  /\ DOMAIN initialUpdates = {"a"}
  /\ updatePolicy = "patch"
  /\ "a" \in DOMAIN dependents /\ \E i \in 1..Len(dependents["a"]) : dependents["a"][i] = "c"
  /\ "c" \in DOMAIN dependents /\ \E i \in 1..Len(dependents["c"]) : dependents["c"][i] = "b"
  /\ "b" \in DOMAIN dependents /\ \E i \in 1..Len(dependents["b"]) : dependents["b"][i] = "a"
  /\ expanded["a"] = 1 /\ expanded["b"] = 1 /\ expanded["c"] = 1

\* the packages whose manifest names dep, read from the manifests
DirectDependents(dep) ==
  {n \in DOMAIN packages : dep \in AllDeps(packages[n].packageJson)}

\* the packages that depend on a member of S through any chain
RECURSIVE DependentsClosure(_)
DependentsClosure(S) ==
  LET more == S \cup UNION {DirectDependents(m) : m \in S}
  IN IF more = S THEN S ELSE DependentsClosure(more)

TransitiveDependents(p) == DependentsClosure(DirectDependents(p))

Rank(kind) == CASE kind = "patch" -> 1 [] kind = "minor" -> 2 [] kind = "major" -> 3

\* the policy table of the cascade engine
PolicyPasses(policy, kind) == policy # "none" /\ Rank(kind) >= Rank(policy)

\* new is old with the patch segment one higher
IsPatchIncrement(old, new) ==
  /\ Len(old) = 3 /\ Len(new) = 3
  /\ Number(new[1]) = Number(old[1]) /\ ~Number(old[1]).nan
  /\ Number(new[2]) = Number(old[2]) /\ ~Number(old[2]).nan
  /\ ~Number(old[3]).nan /\ ~Number(new[3]).nan
  /\ Number(new[3]).n = Number(old[3]).n + 1

\* the changeset-driven packages found in the graph
SeedsInGraph == DOMAIN initialUpdates \cap DOMAIN packages

\* C2: changesets always win. Once seeded, and up to the result, every
\* package with a changeset-driven update that exists in the graph has an
\* entry with reason changeset and exactly the newVersion and bump kind the
\* changesets supplied, written once: the cascade never overwrites it.
C2_ChangesetsWin ==
  cpc # "seed" =>
    \A p \in SeedsInGraph :
      /\ p \in DOMAIN allUpdates
      /\ allUpdates[p] = [packageName |-> p,
                          oldVersion |-> packages[p].version,
                          newVersion |-> initialUpdates[p].version,
                          releaseType |-> initialUpdates[p].releaseType,
                          reason |-> "changeset"]
      /\ writes[p] = 1

\* the cascade returned and a changeset package depends on a package that
\* the cascade itself bumped, under a policy that lets that bump through
C2_Witness ==
  /\ cpc = "done"
  /\ \E p \in SeedsInGraph, q \in DOMAIN allUpdates :
       /\ allUpdates[q].reason = "dependency"
       /\ p \in DirectDependents(q)
       /\ PolicyPasses(updatePolicy, allUpdates[q].releaseType)
       /\ initialUpdates[p].releaseType = "major"

\* C3: every package in the result without a changeset has one entry,
\* written exactly once: reason dependency, bump kind patch, newVersion the
\* patch increment of its version in the graph; a package not in the
\* result was never written.
C3_DependentWrittenOnce ==
  /\ \A n \in DOMAIN allUpdates \ DOMAIN initialUpdates :
       /\ allUpdates[n].packageName = n
       /\ allUpdates[n].reason = "dependency"
       /\ allUpdates[n].releaseType = "patch"
       /\ allUpdates[n].oldVersion = packages[n].version
       /\ IsPatchIncrement(packages[n].version, allUpdates[n].newVersion)
       /\ writes[n] = 1
  /\ \A n \in Names \ DOMAIN allUpdates : writes[n] = 0

\* the diamond: a package that depends on two updated packages is in the
\* result, and the cascade was started by a major bump
C3_Witness ==
  /\ cpc = "done"
  /\ \E n \in DOMAIN allUpdates \ DOMAIN initialUpdates :
       /\ Cardinality({q \in DOMAIN allUpdates : n \in DirectDependents(q)
                                                 /\ expanded[q] = 1}) = 2
  /\ \E p \in SeedsInGraph : initialUpdates[p].releaseType = "major"

\* C4: a package without a changeset is in the result only if it directly
\* depends on a package in the result whose bump kind passes the policy;
\* under policy none the result is exactly the changeset packages found in
\* the graph.
C4_PolicyGating ==
  /\ \A n \in DOMAIN allUpdates \ DOMAIN initialUpdates :
       \E p \in DOMAIN allUpdates :
         /\ n \in DirectDependents(p)
         /\ PolicyPasses(updatePolicy, allUpdates[p].releaseType)
  /\ (updatePolicy = "none" /\ cpc # "seed") => DOMAIN allUpdates = SeedsInGraph

\* policy minor let a minor bump through to a direct dependent and stopped
\* at the dependent's own patch bump
C4_Witness ==
  /\ cpc = "done"
  /\ updatePolicy = "minor"
  /\ \E n \in DOMAIN allUpdates, m \in DOMAIN packages \ DOMAIN allUpdates :
       /\ allUpdates[n].reason = "dependency"
       /\ m \in DirectDependents(n)

\* C5 as stated: for every policy other than none, every transitive
\* dependent without a changeset of a changeset package whose bump passes
\* the policy is in the result with reason dependency.
C5_TransitiveCompleteOriginal ==
  (cpc = "done" /\ updatePolicy # "none") =>
    \A p \in SeedsInGraph :
      PolicyPasses(updatePolicy, initialUpdates[p].releaseType) =>
        \A n \in TransitiveDependents(p) \ DOMAIN initialUpdates :
          n \in DOMAIN allUpdates /\ allUpdates[n].reason = "dependency"

\* C5 amended: when the cascade returns under a policy other than none,
\* every direct dependent without a changeset of a changeset package whose
\* bump passes the policy is in the result with reason dependency; under
\* policy patch so is every transitive dependent.
C5_TransitiveComplete ==
  cpc = "done" =>
    \A p \in SeedsInGraph :
      /\ PolicyPasses(updatePolicy, initialUpdates[p].releaseType) =>
           \A n \in DirectDependents(p) \ DOMAIN initialUpdates :
             n \in DOMAIN allUpdates /\ allUpdates[n].reason = "dependency"
      /\ updatePolicy = "patch" =>
           \A n \in TransitiveDependents(p) \ DOMAIN initialUpdates :
             n \in DOMAIN allUpdates /\ allUpdates[n].reason = "dependency"

\* under policy patch the cascade reached a package that depends on the
\* changeset package only through another package
C5_Witness ==
  /\ cpc = "done"
  /\ updatePolicy = "patch"
  /\ \E p \in SeedsInGraph :
       \E n \in TransitiveDependents(p) \ DirectDependents(p) :
         /\ n \notin DOMAIN initialUpdates
         /\ n \in DOMAIN allUpdates

\* ------------------------------------------------------------------------
\* cascadeDependents (snapshot.ts)
\* ------------------------------------------------------------------------
ListSet(l) == {l[i] : i \in 1..Len(l)}

\* the for loop with queue.push left out
RECURSIVE DepDependentsLoopNoPush(_, _, _)
DepDependentsLoopNoPush(names, all, q) ==
  IF names = <<>> THEN [all |-> all, queue |-> q]
  ELSE LET dependent == Head(names) IN
       IF dependent \notin ListSet(all)
         THEN DepDependentsLoopNoPush(Tail(names), Append(all, dependent), q)
         ELSE DepDependentsLoopNoPush(Tail(names), all, q)

\* lines 51-56: the for loop over the dependents of current
RECURSIVE DepDependentsLoop(_, _, _)
DepDependentsLoop(names, all, q) ==
  IF names = <<>> THEN [all |-> all, queue |-> q]
  ELSE LET dependent == Head(names) IN
       IF dependent \notin ListSet(all)
         THEN DepDependentsLoop(Tail(names), Append(all, dependent),
                                Append(q, dependent))
         ELSE DepDependentsLoop(Tail(names), all, q)

\* lines 43-57: one iteration of the while loop
DepIteration(q, proc, all, deps) ==
  LET current == Head(q) IN
  IF current \in proc
    THEN [queue |-> Tail(q), processed |-> proc, all |-> all]
  ELSE IF current \notin DOMAIN deps
    THEN [queue |-> Tail(q), processed |-> proc \cup {current}, all |-> all]
  ELSE LET r == DepDependentsLoop(deps[current], all, Tail(q))
       IN [queue |-> r.queue, processed |-> proc \cup {current}, all |-> r.all]

\* lines 43-59: the while loop, run to its end
RECURSIVE DepWhile(_, _, _, _)
DepWhile(q, proc, all, deps) ==
  IF q = <<>> THEN all
  ELSE LET r == DepIteration(q, proc, all, deps)
       IN DepWhile(r.queue, r.processed, r.all, deps)

\* cascadeDependents(affectedPackages, dependencyGraph)
cascadeDependents(affected, deps) == DepWhile(affected, {}, affected, deps)

\* ------------------------------------------------------------------------
\* Specification of cascadeDependents
\* ------------------------------------------------------------------------
DepInit ==
  \E es \in SUBSET Edges,
     affected \in {x \in SUBSET Names : Cardinality(x) <= MaxSeeds} :
    LET manifests == Manifests(es, FALSE) IN
    /\ packages = GraphPackages(manifests)
    /\ dependents = GraphDependents(manifests)
    /\ affectedPackages = KeysInOrder(NameOrder, affected)
    /\ allPackagesToUpdate = <<>>
    /\ dqueue = <<>>
    /\ dprocessed = {}
    /\ dpc = "start"
    /\ CascadeIdle
    /\ SnapIdle
    /\ VerIdle /\ PubIdle /\ FnIdle

\* lines 39-41
DepStart ==
  /\ dpc = "start"
  /\ allPackagesToUpdate' = affectedPackages
  /\ dqueue' = affectedPackages
  /\ dprocessed' = {}
  /\ dpc' = "loop"
  /\ UNCHANGED <<graphVars, cascadeVars, addedVars, snapVars, affectedPackages>>

\* lines 43-57, one iteration
DepStep ==
  /\ dpc = "loop"
  /\ dqueue # <<>>
  /\ LET r == DepIteration(dqueue, dprocessed, allPackagesToUpdate, dependents)
     IN /\ dqueue' = r.queue
        /\ dprocessed' = r.processed
        /\ allPackagesToUpdate' = r.all
  /\ UNCHANGED <<graphVars, cascadeVars, addedVars, snapVars, affectedPackages, dpc>>

\* line 59
DepReturn ==
  /\ dpc = "loop"
  /\ dqueue = <<>>
  /\ dpc' = "done"
  /\ UNCHANGED <<graphVars, cascadeVars, addedVars, snapVars, affectedPackages, allPackagesToUpdate,
                 dqueue, dprocessed>>

DepNext == DepStart \/ DepStep \/ DepReturn

DepSpec == DepInit /\ [][DepNext]_vars

\* queue entries left, plus two for every name not yet in the result
DepVariant ==
  Len(dqueue) + 2 * Cardinality(Names \ ListSet(allPackagesToUpdate))

\* C9: cascadeDependents returns exactly the affected packages and every
\* package that depends on one of them directly or through a chain, with
\* no policy gating, each once; and its loop terminates (every iteration
\* strictly decreases a natural-number variant), on diamonds and cycles.
C9_CascadeDependentsClosure ==
  /\ [](/\ DepVariant \in Nat
        /\ Len(allPackagesToUpdate) = Cardinality(ListSet(allPackagesToUpdate))
        /\ (dpc = "done" =>
              /\ dqueue = <<>>
              /\ ListSet(allPackagesToUpdate) =
                   ListSet(affectedPackages)
                     \cup UNION {TransitiveDependents(p) : p \in ListSet(affectedPackages)}))
  /\ [][dpc = "loop" /\ dqueue # <<>> => DepVariant' < DepVariant]_vars

\* cascadeDependents returned on a graph with the cycle a -> b -> c -> a,
\* having pulled in packages that depend on the affected one through a chain
C9_Witness ==
  /\ dpc = "done"
  /\ affectedPackages = <<"c">>
  /\ "b" \in DirectDependents("c")
  /\ "a" \in DirectDependents("b") /\ "a" \notin DirectDependents("c")
  /\ "c" \in DirectDependents("a")
  /\ "d" \in DirectDependents("b") /\ "d" \notin DirectDependents("c")
  /\ ListSet(allPackagesToUpdate) = {"a", "b", "c", "d"}

\* ------------------------------------------------------------------------
\* snapshot.ts: the snapshot engine
\* ------------------------------------------------------------------------
\* the repositories snapshot() is run on: b depends on a, on d and on the
\* external x; c depends on b (dev) and on a (peer); the ranges and the
\* private packages vary
SnapFixtures ==
  << [ba |-> <<"^1", "0", "0">>, cb |-> <<"~0", "1", "2">>,
      ca |-> <<">=1", "0", "0">>, private |-> {}],
     [ba |-> <<"workspace:*">>, cb |-> <<"workspace:^">>,
      ca |-> <<"*">>, private |-> {"b"}],
     [ba |-> <<"workspace:^1", "0", "0">>, cb |-> <<"0", "1", "2">>,
      ca |-> <<"workspace:~1", "0", "0">>, private |-> {"a", "c"}] >>

SnapManifests(f) ==
  [p \in Pkgs |->
     [version |-> ValidVersions[p],
      private |-> p \in f.private,
      dependencies |->
        IF p = "b" THEN [a |-> f.ba, x |-> <<"^4", "17", "21">>, d |-> <<"^0", "0", "1">>]
        ELSE EmptyMap,
      devDependencies |-> IF p = "c" THEN [b |-> f.cb] ELSE EmptyMap,
      peerDependencies |-> IF p = "c" THEN [a |-> f.ca] ELSE EmptyMap]]

\* the changeset documents of the fixtures, each the list of the package
\* names its frontmatter declares
DocPool == {<<>>, <<"a">>, <<"b">>, <<"d">>, <<"x">>}

\* lists over S of length at most n
RECURSIVE ListsUpTo(_, _)
ListsUpTo(S, n) ==
  IF n = 0 THEN {<<>>}
  ELSE LET shorter == ListsUpTo(S, n - 1)
       IN shorter \cup {Append(l, x) : l \in {m \in shorter : Len(m) = n - 1}, x \in S}

\* a file as it was found on disk, and as snapshot.ts:120 writes it
Original(json) == [format |-> "as found", json |-> json]
Stringify(json) == [format |-> "JSON.stringify(json, null, 2) + newline", json |-> json]
\* what a failed write may leave behind
Truncated(json) == [format |-> "truncated", json |-> json]

\* the manifests on disk, by package name (readFileSync + JSON.parse)
DiskManifests(dsk) ==
  [n \in {pth[2] : pth \in DOMAIN dsk} |-> dsk[PathOf(n)].json]

\* Set.add of every element of names, in order
RECURSIVE AddAll(_, _)
AddAll(set, names) ==
  IF names = <<>> THEN set
  ELSE AddAll(IF Head(names) \in ListSet(set) THEN set ELSE Append(set, Head(names)),
              Tail(names))

\* findAffectedPackages
RECURSIVE findAffectedPackages(_)
findAffectedPackages(files) ==
  IF files = <<>> THEN <<>>
  ELSE AddAll(findAffectedPackages(SubSeq(files, 1, Len(files) - 1)),
              files[Len(files)])

\* generateSnapshotVersion: "0.0.0-<unix seconds>"
generateSnapshotVersion == <<"0", "0", "0-1700000000">>

\* backupPackageJsonFiles
RECURSIVE backupPackageJsonFiles(_, _, _)
backupPackageJsonFiles(names, pkgs, dsk) ==
  IF names = <<>> THEN <<>>
  ELSE LET pkgName == Head(names) IN
       IF pkgName \notin DOMAIN pkgs
         THEN backupPackageJsonFiles(Tail(names), pkgs, dsk)
         ELSE <<[name |-> pkgName, path |-> pkgs[pkgName].path,
                 content |-> dsk[pkgs[pkgName].path]]>>
              \o backupPackageJsonFiles(Tail(names), pkgs, dsk)

\* every internal package is rewritten, included or not
SnapshotRewritesAnyInternal(depName, included, pkgs) == depName \in DOMAIN pkgs

\* line 107: packages.has(depName)
SnapshotRewritesDep(depName, included, pkgs) == depName \in included

\* lines 105-112 for one dependency section
SnapshotDeps(deps, included, pkgs, ver) ==
  [d \in DOMAIN deps |->
     IF SnapshotRewritesDep(d, included, pkgs) THEN ver ELSE deps[d]]

\* lines 97-113: the manifest object after the in-place update
SnapshotJson(json, included, pkgs, ver) ==
  [json EXCEPT !.version = ver,
               !.dependencies = SnapshotDeps(json.dependencies, included, pkgs, ver),
               !.devDependencies = SnapshotDeps(json.devDependencies, included, pkgs, ver),
               !.peerDependencies = SnapshotDeps(json.peerDependencies, included, pkgs, ver)]

\* lines 105-111: the updates recorded for one dependency section
RECURSIVE SectionUpdates(_, _, _, _, _)
SectionUpdates(keys, deps, included, pkgs, ver) ==
  IF keys = <<>> THEN <<>>
  ELSE (IF SnapshotRewritesDep(Head(keys), included, pkgs)
          THEN <<[name |-> Head(keys), from |-> deps[Head(keys)], to |-> ver]>>
          ELSE <<>>)
       \o SectionUpdates(Tail(keys), deps, included, pkgs, ver)

ManifestUpdates(json, included, pkgs, ver) ==
  SectionUpdates(KeysInOrder(NameOrder, DOMAIN json.dependencies),
                 json.dependencies, included, pkgs, ver)
  \o SectionUpdates(KeysInOrder(NameOrder, DOMAIN json.devDependencies),
                    json.devDependencies, included, pkgs, ver)
  \o SectionUpdates(KeysInOrder(NameOrder, DOMAIN json.peerDependencies),
                    json.peerDependencies, included, pkgs, ver)

\* updatePackagesToSnapshot, lines 89-121 from the i-th package on; the
\* write of the failAt-th package throws (0: no write throws) and, when
\* truncates, leaves a partial file
RECURSIVE UpdateLoop(_, _, _, _, _, _, _, _)
UpdateLoop(i, names, ver, pkgs, dsk, upd, failAt, truncates) ==
  IF i > Len(names)
    THEN [threw |-> FALSE, error |-> NoError, packages |-> pkgs, disk |-> dsk,
          dependencyUpdates |-> upd]
  ELSE LET pkgName == names[i] IN
       IF pkgName \notin DOMAIN pkgs
         THEN UpdateLoop(i + 1, names, ver, pkgs, dsk, upd, failAt, truncates)
       ELSE LET old == pkgs[pkgName].packageJson
                json == SnapshotJson(old, ListSet(names), pkgs, ver)
                updates == ManifestUpdates(old, ListSet(names), pkgs, ver)
                pkgs2 == [pkgs EXCEPT ![pkgName].packageJson = json]
                upd2 == IF updates # <<>>
                          THEN Append(upd, [name |-> pkgName, updates |-> updates])
                          ELSE upd
                path == pkgs[pkgName].path
            IN IF i = failAt
                 THEN [threw |-> TRUE, error |-> <<"write failed", pkgName>>,
                       packages |-> pkgs2,
                       disk |-> IF truncates
                                  THEN [dsk EXCEPT ![path] = Truncated(json)]
                                  ELSE dsk,
                       dependencyUpdates |-> upd2]
                 ELSE UpdateLoop(i + 1, names, ver, pkgs2,
                                 [dsk EXCEPT ![path] = Stringify(json)],
                                 upd2, failAt, truncates)

updatePackagesToSnapshot(names, ver, pkgs, dsk, failAt, truncates) ==
  UpdateLoop(1, names, ver, pkgs, dsk, <<>>, failAt, truncates)

\* the loop without try / catch: the first failing write throws
RECURSIVE restorePackageJsonFilesNoCatch(_, _, _)
restorePackageJsonFilesNoCatch(bk, dsk, failing) ==
  IF bk = <<>>
    THEN [threw |-> FALSE, error |-> NoError, disk |-> dsk, log |-> <<>>,
          reported |-> <<>>]
  ELSE LET b == Head(bk) IN
       IF b.name \in failing
         THEN [threw |-> TRUE, error |-> <<"restore failed", b.name>>, disk |-> dsk,
               log |-> <<[name |-> b.name, ok |-> FALSE]>>, reported |-> <<>>]
         ELSE LET r == restorePackageJsonFilesNoCatch(
                         Tail(bk), [dsk EXCEPT ![b.path] = b.content], failing)
              IN [r EXCEPT !.log = <<[name |-> b.name, ok |-> TRUE]>> \o r.log]

\* restorePackageJsonFiles; the writes of the files in failing throw
RECURSIVE restorePackageJsonFiles(_, _, _)
restorePackageJsonFiles(bk, dsk, failing) ==
  IF bk = <<>>
    THEN [threw |-> FALSE, error |-> NoError, disk |-> dsk, log |-> <<>>,
          reported |-> <<>>]
  ELSE LET b == Head(bk) IN
       IF b.name \in failing
         THEN LET r == restorePackageJsonFiles(Tail(bk), dsk, failing)
              IN [r EXCEPT !.log = <<[name |-> b.name, ok |-> FALSE]>> \o r.log,
                           !.reported = <<b.name>> \o r.reported]
         ELSE LET r == restorePackageJsonFiles(
                         Tail(bk), [dsk EXCEPT ![b.path] = b.content], failing)
              IN [r EXCEPT !.log = <<[name |-> b.name, ok |-> TRUE]>> \o r.log]

\* ------------------------------------------------------------------------
\* Specification of snapshot()
\* ------------------------------------------------------------------------
SnapInit ==
  \E f \in 1..Len(SnapFixtures),
     files \in ListsUpTo(DocPool, MaxFiles),
     dr \in BOOLEAN,
     de \in BOOLEAN :
    LET manifests == SnapManifests(SnapFixtures[f])
        dsk == [pth \in {PathOf(n) : n \in DOMAIN manifests} |->
                  Original(manifests[pth[2]])]
    IN /\ dirExists = de
       /\ changesetFiles = files
       /\ dryRun = dr
       /\ disk = dsk
       /\ origDisk = dsk
       /\ packages = EmptyMap
       /\ dependents = EmptyMap
       /\ snapshotVersion = <<>>
       /\ backups = <<>>
       /\ spc = "start"
       /\ sidx = 0
       /\ results = [success |-> 0, failed |-> 0]
       /\ publishLog = <<>>
       /\ pendingError = NoError
       /\ raisedError = NoError
       /\ restoreLog = <<>>
       /\ reported = <<>>
       /\ faults = 0
       /\ DepIdle
       /\ CascadeIdle
       /\ VerIdle /\ PubIdle /\ FnIdle

\* lines 139-226: the guard clauses, the graph, the cascade and the dry run
SnapStart ==
  /\ spc = "start"
  /\ LET affected == findAffectedPackages(changesetFiles)
         manifests == DiskManifests(disk)
         pkgs == GraphPackages(manifests)
         deps == GraphDependents(manifests)
     IN IF ~dirExists \/ changesetFiles = <<>> \/ affected = <<>>
          THEN /\ spc' = "exited"
               /\ UNCHANGED <<graphVars, affectedPackages, allPackagesToUpdate,
                              snapshotVersion>>
        ELSE IF \E n \in ListSet(affected) : n \notin DOMAIN pkgs
          THEN /\ spc' = "exited"
               /\ packages' = pkgs
               /\ dependents' = deps
               /\ affectedPackages' = affected
               /\ UNCHANGED <<allPackagesToUpdate, snapshotVersion>>
        ELSE /\ packages' = pkgs
             /\ dependents' = deps
             /\ affectedPackages' = affected
             /\ allPackagesToUpdate' = cascadeDependents(affected, deps)
             /\ snapshotVersion' = generateSnapshotVersion
             /\ spc' = IF dryRun THEN "done" ELSE "backup"
  /\ UNCHANGED <<cascadeVars, addedVars, dqueue, dprocessed, dpc, dirExists, changesetFiles,
                 dryRun, disk, backups, sidx, results, publishLog, pendingError,
                 raisedError, restoreLog, reported, faults, origDisk>>

\* line 231; a read that throws is raised to the caller (outside the try)
SnapBackup ==
  /\ spc = "backup"
  /\ \E readFails \in BOOLEAN :
       IF readFails
         THEN /\ faults < MaxFaults
              /\ faults' = faults + 1
              /\ raisedError' = <<"read failed">>
              /\ spc' = "raised"
              /\ UNCHANGED backups
         ELSE /\ backups' = backupPackageJsonFiles(allPackagesToUpdate, packages, disk)
              /\ spc' = "update"
              /\ UNCHANGED <<faults, raisedError>>
  /\ UNCHANGED <<graphVars, cascadeVars, addedVars, depVars, dirExists, changesetFiles, dryRun,
                 disk, snapshotVersion, sidx, results, publishLog, pendingError,
                 restoreLog, reported, origDisk>>

\* lines 233-256: updatePackagesToSnapshot inside the try
SnapUpdate ==
  /\ spc = "update"
  /\ \E failAt \in 0..Len(allPackagesToUpdate), truncates \in BOOLEAN :
       /\ failAt > 0 => faults < MaxFaults
       /\ failAt = 0 => ~truncates
       /\ LET r == updatePackagesToSnapshot(allPackagesToUpdate, snapshotVersion,
                                            packages, disk, failAt, truncates)
          IN /\ packages' = r.packages
             /\ disk' = r.disk
             /\ faults' = IF r.threw THEN faults + 1 ELSE faults
             /\ pendingError' = r.error
             /\ spc' = IF r.threw THEN "catch" ELSE "publish"
             /\ sidx' = 1
  /\ UNCHANGED <<dependents, cascadeVars, addedVars, depVars, dirExists, changesetFiles, dryRun,
                 snapshotVersion, backups, results, publishLog, raisedError,
                 restoreLog, reported, origDisk>>

\* the publish loop without its try/catch: a failed publish leaves the loop
SnapPublishStopsOnFailure ==
  /\ spc = "publish"
  /\ sidx <= Len(allPackagesToUpdate)
  /\ LET pkgName == allPackagesToUpdate[sidx] IN
     IF pkgName \notin DOMAIN packages \/ packages[pkgName].packageJson.private = TRUE
       THEN UNCHANGED <<results, publishLog, faults, spc, pendingError>>
       ELSE \E ok \in BOOLEAN :
              /\ ~ok => faults < MaxFaults
              /\ faults' = IF ok THEN faults ELSE faults + 1
              /\ publishLog' = Append(publishLog,
                                 [name |-> pkgName, version |-> snapshotVersion,
                                  tag |-> "snapshot", ok |-> ok])
              /\ results' = IF ok
                              THEN [results EXCEPT !.success = @ + 1]
                              ELSE results
              /\ spc' = IF ok THEN spc ELSE "catch"
              /\ pendingError' = IF ok THEN pendingError ELSE <<"publish failed", pkgName>>
  /\ sidx' = sidx + 1
  /\ UNCHANGED <<graphVars, cascadeVars, addedVars, depVars, dirExists, changesetFiles, dryRun,
                 disk, snapshotVersion, backups, raisedError,
                 restoreLog, reported, origDisk>>

\* lines 258-289: one iteration of the publish loop
SnapPublish ==
  /\ spc = "publish"
  /\ sidx <= Len(allPackagesToUpdate)
  /\ LET pkgName == allPackagesToUpdate[sidx] IN
     IF pkgName \notin DOMAIN packages \/ packages[pkgName].packageJson.private = TRUE
       THEN UNCHANGED <<results, publishLog, faults>>
       ELSE \E ok \in BOOLEAN :
              /\ ~ok => faults < MaxFaults
              /\ faults' = IF ok THEN faults ELSE faults + 1
              /\ publishLog' = Append(publishLog,
                                 [name |-> pkgName, version |-> snapshotVersion,
                                  tag |-> "snapshot", ok |-> ok])
              /\ results' = IF ok
                              THEN [results EXCEPT !.success = @ + 1]
                              ELSE [results EXCEPT !.failed = @ + 1]
  /\ sidx' = sidx + 1
  /\ UNCHANGED <<graphVars, cascadeVars, addedVars, depVars, dirExists, changesetFiles, dryRun,
                 disk, snapshotVersion, backups, spc, pendingError, raisedError,
                 restoreLog, reported, origDisk>>

\* the sets of restore writes that may fail now
FailingSets ==
  {x \in SUBSET {backups[i].name : i \in 1..Len(backups)} :
     Cardinality(x) <= MaxFaults - faults}

\* the catch block bare of its restore
SnapCatchNoRestore ==
  /\ spc = "catch"
  /\ raisedError' = pendingError
  /\ spc' = "raised"
  /\ UNCHANGED <<graphVars, cascadeVars, addedVars, depVars, dirExists, changesetFiles, dryRun,
                 snapshotVersion, backups, sidx, results, publishLog, pendingError,
                 origDisk, disk, restoreLog, reported, faults>>

\* the restore one iteration before the end of the publish loop
SnapRestoreBeforeLastPublish ==
  /\ spc = "publish"
  /\ sidx >= Len(allPackagesToUpdate)
  /\ \E failing \in FailingSets :
       LET r == restorePackageJsonFiles(backups, disk, failing)
       IN /\ disk' = r.disk
          /\ restoreLog' = restoreLog \o r.log
          /\ reported' = reported \o r.reported
          /\ faults' = faults + Cardinality(failing)
          /\ pendingError' = r.error
          /\ spc' = IF r.threw THEN "catch" ELSE "done"
  /\ UNCHANGED <<graphVars, cascadeVars, addedVars, depVars, dirExists, changesetFiles, dryRun,
                 snapshotVersion, backups, sidx, results, publishLog, raisedError,
                 origDisk>>

\* lines 291-314: the restore after the publish loop and the summary; an
\* error thrown here is caught at line 315
SnapRestore ==
  /\ spc = "publish"
  /\ sidx > Len(allPackagesToUpdate)
  /\ \E failing \in FailingSets :
       LET r == restorePackageJsonFiles(backups, disk, failing)
       IN /\ disk' = r.disk
          /\ restoreLog' = restoreLog \o r.log
          /\ reported' = reported \o r.reported
          /\ faults' = faults + Cardinality(failing)
          /\ pendingError' = r.error
          /\ spc' = IF r.threw THEN "catch" ELSE "done"
  /\ UNCHANGED <<graphVars, cascadeVars, addedVars, depVars, dirExists, changesetFiles, dryRun,
                 snapshotVersion, backups, sidx, results, publishLog, raisedError,
                 origDisk>>

\* lines 315-322: restore, then throw the caught error again; an error
\* thrown by the restore itself would leave the block in its place
SnapCatch ==
  /\ spc = "catch"
  /\ \E failing \in FailingSets :
       LET r == restorePackageJsonFiles(backups, disk, failing)
       IN /\ disk' = r.disk
          /\ restoreLog' = restoreLog \o r.log
          /\ reported' = reported \o r.reported
          /\ faults' = faults + Cardinality(failing)
          /\ raisedError' = IF r.threw THEN r.error ELSE pendingError
          /\ spc' = "raised"
  /\ UNCHANGED <<graphVars, cascadeVars, addedVars, depVars, dirExists, changesetFiles, dryRun,
                 snapshotVersion, backups, sidx, results, publishLog, pendingError,
                 origDisk>>

SnapNext ==
  SnapStart \/ SnapBackup \/ SnapUpdate \/ SnapPublish \/ SnapRestore \/ SnapCatch

SnapSpec == SnapInit /\ [][SnapNext]_vars

\* ------------------------------------------------------------------------
\* Properties of the snapshot engine
\* ------------------------------------------------------------------------
SnapExited == spc \in {"done", "raised"}

BackedUpPaths == {backups[i].path : i \in 1..Len(backups)}

\* the packages the run includes and finds in the graph
Included == ListSet(allPackagesToUpdate) \cap DOMAIN packages

\* C6: in a run that is not a dry run and reaches the backup step, however
\* it ends (return or raise) and whatever fails (the backup read, a
\* manifest write, publishes, restore writes), on exit every backed-up
\* manifest whose restore write succeeded holds its pre-run content; no file
\* is written before the backups are taken, the backups hold the pre-run
\* content, and a file that is not backed up is never written.
C6_RestoredOnEveryExit ==
  /\ spc \in {"start", "backup"} => disk = origDisk
  /\ \A i \in 1..Len(backups) : backups[i].content = origDisk[backups[i].path]
  /\ \A pth \in DOMAIN disk \ BackedUpPaths : disk[pth] = origDisk[pth]
  /\ (SnapExited /\ ~dryRun) =>
       \A i \in 1..Len(backups) :
         backups[i].name \notin ListSet(reported) =>
           disk[backups[i].path] = origDisk[backups[i].path]

\* the run returned after a publish failure with three or more manifests
\* rewritten and restored
C6_Witness ==
  /\ spc = "done"
  /\ ~dryRun
  /\ results.failed >= 1
  /\ Len(backups) >= 3
  /\ reported = <<>>
  /\ Len(restoreLog) = Len(backups)

\* C7 as stated: when the manifest update or the publishing of a package
\* fails in a run that is not a dry run, snapshot() restores the backed-up
\* manifests and then raises the failure to its caller; it does not return
\* normally.
C7_FailureIsReraised ==
  (SnapExited /\ ~dryRun /\ backups # <<>>
     /\ (pendingError # NoError \/ results.failed > 0)) =>
    /\ spc = "raised"
    /\ raisedError # NoError
    /\ Len(restoreLog) = Len(backups)

\* C8: restorePackageJsonFiles tries to write back every backup entry, in
\* order, whichever of the writes fail; each failure is reported; the
\* function does not raise, so that after the restore snapshot() returns
\* or raises the error it had caught, never a restore error.
C8_RestoreTriesEveryFile ==
  (SnapExited /\ ~dryRun /\ backups # <<>>) =>
    /\ [i \in 1..Len(restoreLog) |-> restoreLog[i].name]
         = [i \in 1..Len(backups) |-> backups[i].name]
    /\ \A i \in 1..Len(restoreLog) :
         ~restoreLog[i].ok <=> restoreLog[i].name \in ListSet(reported)
    /\ raisedError = pendingError
    /\ (spc = "raised") = (pendingError # NoError)

\* the error path: the manifest update failed, the restore of the first
\* file failed too, and the files after it were still restored
C8_Witness ==
  /\ spc = "raised"
  /\ pendingError # NoError
  /\ Len(restoreLog) >= 3
  /\ ~restoreLog[1].ok
  /\ restoreLog[2].ok /\ restoreLog[3].ok
  /\ raisedError = pendingError

\* the update of the manifests went through
SnapUpdated == spc = "publish"

\* C10: after updatePackagesToSnapshot every included package's manifest
\* (in memory and on disk) has the snapshot version; every dependencies,
\* devDependencies and peerDependencies entry naming an included package is
\* exactly the snapshot version, whatever range it held; every entry naming
\* another package is unchanged; no entry is added or removed.
C10_SnapshotManifests ==
  SnapUpdated =>
    \A n \in Included :
      LET json == packages[n].packageJson
          old == origDisk[packages[n].path].json
          sectionOk(now, before) ==
            /\ DOMAIN now = DOMAIN before
            /\ \A d \in DOMAIN now :
                 now[d] = IF d \in ListSet(allPackagesToUpdate)
                            THEN snapshotVersion ELSE before[d]
      IN /\ json.version = snapshotVersion
         /\ sectionOk(json.dependencies, old.dependencies)
         /\ sectionOk(json.devDependencies, old.devDependencies)
         /\ sectionOk(json.peerDependencies, old.peerDependencies)
         /\ json.private = old.private
         /\ disk[packages[n].path] = Stringify(json)

\* b is included: its workspace:* range on the included a is pinned, its
\* ranges on the internal d (not included) and the external x are kept
C10_Witness ==
  /\ SnapUpdated
  /\ "b" \in Included /\ "a" \in Included /\ "d" \notin Included
  /\ origDisk[PathOf("b")].json.dependencies["a"] = <<"workspace:*">>
  /\ packages["b"].packageJson.dependencies["a"] = snapshotVersion
  /\ packages["b"].packageJson.dependencies["d"] = <<"^0", "0", "1">>
  /\ packages["b"].packageJson.dependencies["x"] = <<"^4", "17", "21">>

\* the included packages among the first k that the publish loop hands to
\* publishToNpm: those found in the graph whose manifest is not private
Publishable(k) ==
  SelectSeq(SubSeq(allPackagesToUpdate, 1, k),
            LAMBDA n : /\ PathOf(n) \in DOMAIN origDisk
                       /\ origDisk[PathOf(n)].json.private # TRUE)

PublishedNames == [i \in 1..Len(publishLog) |-> publishLog[i].name]

\* C11: in a run that is not a dry run, publishToNpm is called once for each
\* included package that is not private, in order, with the tag snapshot and
\* the shared snapshot version; never for a private package or a package
\* that is not included; a failed publish does not stop the loop: when the
\* run returns, every included non-private package has been handed over.
C11_PublishCalls ==
  /\ \A i \in 1..Len(publishLog) :
       /\ publishLog[i].tag = "snapshot"
       /\ publishLog[i].version = snapshotVersion
       /\ snapshotVersion = generateSnapshotVersion
       /\ publishLog[i].name \in ListSet(allPackagesToUpdate)
       /\ origDisk[PathOf(publishLog[i].name)].json.private # TRUE
       /\ \A j \in 1..Len(publishLog) : publishLog[j].name = publishLog[i].name => j = i
  /\ spc = "publish" => PublishedNames = Publishable(sidx - 1)
  /\ (SnapExited /\ publishLog # <<>>) =>
       PublishedNames = Publishable(Len(allPackagesToUpdate))
  /\ (spc = "done" /\ ~dryRun) =>
       /\ PublishedNames = Publishable(Len(allPackagesToUpdate))
       /\ results.success + results.failed = Len(publishLog)
       /\ results.failed = Cardinality({i \in 1..Len(publishLog) : ~publishLog[i].ok})

\* the run returned; the first publish failed and a later one succeeded,
\* and an included private package was skipped
C11_Witness ==
  /\ spc = "done"
  /\ ~dryRun
  /\ Len(publishLog) >= 2
  /\ ~publishLog[1].ok
  /\ publishLog[Len(publishLog)].ok
  /\ \E n \in ListSet(allPackagesToUpdate) : origDisk[PathOf(n)].json.private = TRUE

\* ------------------------------------------------------------------------
\* parseChangesetFile (version.ts:44-85)
\*
\* A document is the list of its lines (content.split("\n")); a line is a
\* list of tokens: Dashes is the text "---", Quote the double quote, a word
\* token a run of \w characters.  A file that ends with a newline has an
\* empty last line.
\* ------------------------------------------------------------------------
Dashes == "---"
Quote == "\""
WordTokens == {"a", "b", "c", "d", "x", "feat", "fix", "chore", "major", "text"}
Tokens == WordTokens \cup {Dashes, Quote, ":", " ", "!", "@major", "@minor", "#"}

\* the length of the longest run of tokens of S that starts at index i
RECURSIVE RunLen(_, _, _)
RunLen(line, i, S) ==
  IF i <= Len(line) /\ line[i] \in S THEN 1 + RunLen(line, i + 1, S) ELSE 0

\* line.match(/^"([^"]+)":\s*(\w+)(@major|!)?/)  (line 61)
MatchLine(line) ==
  LET n == RunLen(line, 2, Tokens \ {Quote})
      closing == 2 + n
      colon == closing + 1
      w0 == colon + 1 + RunLen(line, colon + 1, {" "})
      w == RunLen(line, w0, WordTokens)
      s0 == w0 + w
  IN IF /\ Len(line) >= 1 /\ line[1] = Quote
        /\ n >= 1
        /\ closing <= Len(line) /\ line[closing] = Quote
        /\ colon <= Len(line) /\ line[colon] = ":"
        /\ w >= 1
       THEN [matched |-> TRUE,
             packageName |-> SubSeq(line, 2, closing - 1),
             changesetType |-> SubSeq(line, w0, s0 - 1),
             suffix |-> IF s0 <= Len(line) /\ line[s0] \in {"@major", "!"}
                          THEN line[s0] ELSE "undefined"]
       ELSE [matched |-> FALSE, packageName |-> <<>>, changesetType |-> <<>>,
             suffix |-> "undefined"]

\* the smallest member of a non-empty set of numbers
Least(S) == CHOOSE x \in S : \A y \in S : x <= y

\* content.match(/^---\n([\s\S]*?)\n---/)  (line 49): the first line is ---
\* and the block ends before the first later line that begins with ---;
\* 0 when there is no match
FrontmatterClose(doc) ==
  LET ends == {j \in 3..Len(doc) : Len(doc[j]) >= 1 /\ doc[j][1] = Dashes}
  IN IF Len(doc) >= 1 /\ doc[1] = <<Dashes>> /\ ends # {} THEN Least(ends) ELSE 0

\* content.match(/^---\n[\s\S]*?\n---\n([\s\S]*)$/)  (line 57): the message
\* starts after the first later line that is --- and is followed by a newline
MessageStart(doc) ==
  LET ends == {k \in 3..(Len(doc) - 1) : doc[k] = <<Dashes>>}
  IN IF Len(doc) >= 1 /\ doc[1] = <<Dashes>> /\ ends # {} THEN Least(ends) + 1 ELSE 0

\* the lines from index i on, joined with newlines
RECURSIVE JoinLines(_, _)
JoinLines(doc, i) ==
  IF i > Len(doc) THEN <<>>
  ELSE IF i = Len(doc) THEN doc[i]
  ELSE doc[i] \o <<"\n">> \o JoinLines(doc, i + 1)

Whitespace == {" ", "\n"}

\* String.prototype.trim
RECURSIVE Trim(_)
Trim(t) ==
  IF t = <<>> THEN t
  ELSE IF t[1] \in Whitespace THEN Trim(Tail(t))
  ELSE IF t[Len(t)] \in Whitespace THEN Trim(SubSeq(t, 1, Len(t) - 1))
  ELSE t

\* messageMatch?.[1]?.trim() || ""  (line 58)
MessageOf(doc) ==
  IF MessageStart(doc) = 0 THEN <<>> ELSE Trim(JoinLines(doc, MessageStart(doc)))

\* config.lazyChangesets.types.find((t) => t.type === changesetType)
\* (line 74); 0 when no entry is found
FindType(types, changesetType) ==
  LET hits == {i \in 1..Len(types) : types[i].type = changesetType}
  IN IF hits = {} THEN 0 ELSE Least(hits)

\* the resolution that prefers the configured release type to the suffix
ResolveReleaseTypeConfigFirst(types, changesetType, suffix) ==
  LET i == FindType(types, changesetType)
  IN IF i # 0 /\ types[i].releaseType # "undefined" THEN types[i].releaseType
     ELSE IF suffix = "!" \/ suffix = "@major" THEN "major"
     ELSE "patch"

\* lines 66-78
ResolveReleaseType(types, changesetType, suffix) ==
  LET isBreaking == suffix = "!"
      isExplicitMajor == suffix = "@major"
      i == FindType(types, changesetType)
  IN IF isBreaking \/ isExplicitMajor THEN "major"
     ELSE IF i # 0 /\ types[i].releaseType # "undefined" THEN types[i].releaseType
     ELSE "patch"

\* lines 60-82: the loop over the frontmatter lines
RECURSIVE ParseLines(_, _, _)
ParseLines(lines, message, types) ==
  IF lines = <<>> THEN <<>>
  ELSE LET m == MatchLine(Head(lines))
           rest == ParseLines(Tail(lines), message, types)
       IN IF m.matched
            THEN <<[type |-> ResolveReleaseType(types, m.changesetType, m.suffix),
                    packageName |-> m.packageName,
                    message |-> message,
                    changesetType |-> m.changesetType,
                    isBreaking |-> m.suffix = "!"]>> \o rest
            ELSE rest

parseChangesetFile(doc, types) ==
  IF FrontmatterClose(doc) = 0 THEN <<>>
  ELSE ParseLines(SubSeq(doc, 2, FrontmatterClose(doc) - 1), MessageOf(doc), types)

\* ------------------------------------------------------------------------
\* version(): helpers
\* ------------------------------------------------------------------------
\* lines 87-93
getHighestReleaseType(releases) ==
  IF \E i \in 1..Len(releases) : releases[i].type = "major" THEN "major"
  ELSE IF \E i \in 1..Len(releases) : releases[i].type = "minor" THEN "minor"
  ELSE "patch"

\* the runs of the operator characters ~ ^ > = < a range starts with
OperatorRuns == {"", "^", "~", ">=", "<=", ">", "<", "="}

\* what follows the operator in the first segment of a range: the first
\* number of a version, nothing, a wildcard or a word
RestStarts == {"0", "1", "2", "3", "4", "10", "", "*", "latest"}

\* the first segment of a range, split as the code does: the text
\* "workspace:" when it starts the range, then the operator characters
\* matched by /^([~^>=<]*)/
RangeOperators ==
  {[text |-> ws \o op \o d, workspace |-> ws = "workspace:", operator |-> op] :
     ws \in {"", "workspace:"}, op \in OperatorRuns, d \in RestStarts}

RangeIndex(seg) == CHOOSE r \in RangeOperators : r.text = seg

\* the rewrite that drops the operator
updateDependencyRangeExact(currentRange, newVersion) ==
  LET r == RangeIndex(currentRange[1])
  IN IF r.workspace
       THEN IF currentRange = <<"workspace:*">> THEN currentRange
            ELSE <<"workspace:" \o newVersion[1]>> \o Tail(newVersion)
     ELSE IF currentRange = <<"*">> THEN currentRange
     ELSE newVersion

\* the rewrite that turns a caret into a tilde and a tilde into a caret
updateDependencyRangeFlipsOperator(currentRange, newVersion) ==
  LET r == RangeIndex(currentRange[1])
      op == IF r.operator = "^" THEN "~" ELSE IF r.operator = "~" THEN "^" ELSE r.operator
  IN IF r.workspace
       THEN IF currentRange = <<"workspace:*">> THEN currentRange
            ELSE <<"workspace:" \o op \o newVersion[1]>> \o Tail(newVersion)
     ELSE IF currentRange = <<"*">> THEN currentRange
     ELSE <<op \o newVersion[1]>> \o Tail(newVersion)

\* lines 169-194, on a range given by its dot-separated segments
updateDependencyRange(currentRange, newVersion) ==
  LET r == RangeIndex(currentRange[1])
  IN IF r.workspace
       THEN IF currentRange = <<"workspace:*">> THEN currentRange
            ELSE <<"workspace:" \o r.operator \o newVersion[1]>> \o Tail(newVersion)
     ELSE IF currentRange = <<"*">> THEN currentRange
     ELSE <<r.operator \o newVersion[1]>> \o Tail(newVersion)

\* lines 215-228: the loop over the updates for one section; order lists the
\* keys of updates in Map order
RECURSIVE UpdateSection(_, _, _, _)
UpdateSection(deps, updates, order, acc) ==
  IF order = <<>> THEN [deps |-> deps, updates |-> acc]
  ELSE LET depName == Head(order) IN
       IF depName \in DOMAIN deps
         THEN LET currentRange == deps[depName]
                  newRange == updateDependencyRange(currentRange,
                                                    updates[depName].newVersion)
              IN IF currentRange # newRange
                   THEN UpdateSection([deps EXCEPT ![depName] = newRange], updates,
                                      Tail(order),
                                      Append(acc, [name |-> depName,
                                                   from |-> currentRange,
                                                   to |-> newRange]))
                   ELSE UpdateSection(deps, updates, Tail(order), acc)
         ELSE UpdateSection(deps, updates, Tail(order), acc)

\* updatePackageDependencies that leaves the peerDependencies alone
updatePackageDependenciesSkipsPeer(packageJson, updates, order) ==
  LET d == UpdateSection(packageJson.dependencies, updates, order, <<>>)
      v == UpdateSection(packageJson.devDependencies, updates, order, d.updates)
  IN [packageJson |-> [packageJson EXCEPT !.dependencies = d.deps,
                                          !.devDependencies = v.deps],
      dependencyUpdates |-> v.updates]

\* lines 205-232
updatePackageDependencies(packageJson, updates, order) ==
  LET d == UpdateSection(packageJson.dependencies, updates, order, <<>>)
      v == UpdateSection(packageJson.devDependencies, updates, order, d.updates)
      r == UpdateSection(packageJson.peerDependencies, updates, order, v.updates)
  IN [packageJson |-> [packageJson EXCEPT !.dependencies = d.deps,
                                          !.devDependencies = v.deps,
                                          !.peerDependencies = r.deps],
      dependencyUpdates |-> r.updates]

\* line.match(/^"([^"]+)":\s*(\w+)(!?)/)  (line 334): the pattern of
\* generateChangelog knows the suffix ! only
MatchChangelogLine(line) ==
  LET n == RunLen(line, 2, Tokens \ {Quote})
      closing == 2 + n
      colon == closing + 1
      w0 == colon + 1 + RunLen(line, colon + 1, {" "})
      w == RunLen(line, w0, WordTokens)
      s0 == w0 + w
  IN IF /\ Len(line) >= 1 /\ line[1] = Quote
        /\ n >= 1
        /\ closing <= Len(line) /\ line[closing] = Quote
        /\ colon <= Len(line) /\ line[colon] = ":"
        /\ w >= 1
       THEN [matched |-> TRUE,
             packageName |-> SubSeq(line, 2, closing - 1),
             changesetType |-> SubSeq(line, w0, s0 - 1),
             isBreaking |-> s0 <= Len(line) /\ line[s0] = "!"]
       ELSE [matched |-> FALSE, packageName |-> <<>>, changesetType |-> <<>>,
             isBreaking |-> FALSE]

\* lines 333-347: the first line of the block that declares the package,
\* 0 when there is none (the loop breaks after it)
FirstLineFor(lines, packageName) ==
  LET hits == {i \in 1..Len(lines) :
                 /\ MatchChangelogLine(lines[i]).matched
                 /\ MatchChangelogLine(lines[i]).packageName = <<packageName>>}
  IN IF hits = {} THEN 0 ELSE Least(hits)

\* no bucket filled yet (lines 320-321); keys is the insertion order of the
\* Map typeGroups
NoBuckets == [breakingChanges |-> <<>>, keys |-> <<>>, typeGroups |-> EmptyMap]

\* lines 323-348: the loop over the documents
RECURSIVE Bucket(_, _, _)
Bucket(changesetContents, packageName, acc) ==
  IF changesetContents = <<>> THEN acc
  ELSE LET content == Head(changesetContents)
           close == FrontmatterClose(content)
           lines == SubSeq(content, 2, close - 1)
           message == MessageOf(content)
           i == IF close = 0 THEN 0 ELSE FirstLineFor(lines, packageName)
           m == MatchChangelogLine(lines[i])
           t == m.changesetType
           next ==
             IF i = 0 THEN acc
             ELSE IF m.isBreaking
               THEN [acc EXCEPT !.breakingChanges = Append(@, message)]
             ELSE IF t \in DOMAIN acc.typeGroups
               THEN [acc EXCEPT !.typeGroups[t] = Append(@, message)]
             ELSE [acc EXCEPT !.keys = Append(@, t),
                              !.typeGroups = [k \in DOMAIN @ \cup {t} |->
                                                IF k = t THEN <<message>> ELSE @[k]]]
       IN Bucket(Tail(changesetContents), packageName, next)

\* the sort that puts the types absent from the configuration first
SortedTypesUnconfiguredFirst(keys, types) ==
  LET configured == {i \in 1..Len(types) :
                       /\ FindType(types, types[i].type) = i
                       /\ \E k \in 1..Len(keys) : keys[k] = types[i].type}
      byIndex == KeysInOrder([i \in 1..Len(types) |-> i], configured)
  IN SelectSeq(keys, LAMBDA t : FindType(types, t) = 0)
       \o [k \in 1..Len(byIndex) |-> types[byIndex[k]].type]

\* lines 362-368: a stable sort by the index of the type in the
\* configuration, the types that are not configured sorting as 999
SortedTypes(keys, types) ==
  LET configured == {i \in 1..Len(types) :
                       /\ FindType(types, types[i].type) = i
                       /\ \E k \in 1..Len(keys) : keys[k] = types[i].type}
      byIndex == KeysInOrder([i \in 1..Len(types) |-> i], configured)
  IN [k \in 1..Len(byIndex) |-> types[byIndex[k]].type]
       \o SelectSeq(keys, LAMBDA t : FindType(types, t) = 0)

\* one block of the section: a heading and its list items
Block(heading, items) == [heading |-> heading, items |-> items]

DependenciesHeading == <<"Dependencies">>
BreakingHeading == <<"Breaking Changes">>

\* generateChangelog that tells the breaking lines by the release type the
\* parser gives them
generateChangelogMajorIsBreaking(packageName, version, changesetContents, dependencyUpdates, types) ==
  LET breaking(c) ==
        \E k \in 1..Len(parseChangesetFile(c, types)) :
          /\ parseChangesetFile(c, types)[k].packageName = <<packageName>>
          /\ parseChangesetFile(c, types)[k].type = "major"
      b == Bucket(SelectSeq(changesetContents, LAMBDA c : ~breaking(c)),
                  packageName, NoBuckets)
      brk == [k \in 1..Len(SelectSeq(changesetContents, breaking)) |->
                MessageOf(SelectSeq(changesetContents, breaking)[k])]
      sorted == SortedTypes(b.keys, types)
  IN [version |-> version,
      blocks |->
        (IF dependencyUpdates # <<>>
           THEN <<Block(DependenciesHeading, dependencyUpdates)>> ELSE <<>>)
        \o (IF brk # <<>> THEN <<Block(BreakingHeading, brk)>> ELSE <<>>)
        \o [k \in 1..Len(sorted) |-> Block(sorted[k], b.typeGroups[sorted[k]])],
      noChanges |-> b.keys = <<>> /\ brk = <<>>]

\* lines 301-385: the section as its version, the list of its blocks in the
\* order of the text, and whether it ends with "No changes recorded."; the
\* date of the heading and the emojis are left out; types is what
\* readConfig() returns (line 307)
generateChangelog(packageName, version, changesetContents, dependencyUpdates, types) ==
  LET b == Bucket(changesetContents, packageName, NoBuckets)
      sorted == SortedTypes(b.keys, types)
  IN [version |-> version,
      blocks |->
        (IF dependencyUpdates # <<>>
           THEN <<Block(DependenciesHeading, dependencyUpdates)>> ELSE <<>>)
        \o (IF b.breakingChanges # <<>>
              THEN <<Block(BreakingHeading, b.breakingChanges)>> ELSE <<>>)
        \o [k \in 1..Len(sorted) |-> Block(sorted[k], b.typeGroups[sorted[k]])],
      noChanges |-> b.keys = <<>> /\ b.breakingChanges = <<>>]

\* the releases of the documents, each with the index of its document
\* (lines 408-418)
RECURSIVE ReleasesOfDocs(_, _, _)
ReleasesOfDocs(docs, i, types) ==
  IF i > Len(docs) THEN <<>>
  ELSE LET rs == parseChangesetFile(docs[i], types)
       IN [k \in 1..Len(rs) |-> [release |-> rs[k], doc |-> i]]
            \o ReleasesOfDocs(docs, i + 1, types)

\* packageReleases and packageChangelogs after the loop of lines 408-418
CollectReleases(docs, types) ==
  LET all == ReleasesOfDocs(docs, 1, types)
      keys == {all[k].release.packageName : k \in 1..Len(all)}
      of(key) == SelectSeq(all, LAMBDA e : e.release.packageName = key)
  IN [releases |-> [key \in keys |-> [k \in 1..Len(of(key)) |-> of(key)[k].release]],
      changelogs |-> [key \in keys |-> [k \in 1..Len(of(key)) |-> of(key)[k].doc]]]

\* lines 436-449: the loop over the packages of the graph; a throw of
\* bumpVersion leaves version()
RECURSIVE InitialUpdatesLoop(_, _, _, _)
InitialUpdatesLoop(order, pkgs, releasesOf, acc) ==
  IF order = <<>> THEN [threw |-> FALSE, error |-> NoError, initial |-> acc]
  ELSE LET packageName == Head(order) IN
       IF <<packageName>> \notin DOMAIN releasesOf
         THEN InitialUpdatesLoop(Tail(order), pkgs, releasesOf, acc)
         ELSE LET releases == releasesOf[<<packageName>>]
                  highestReleaseType == getHighestReleaseType(releases)
                  hasBreakingChange == \E i \in 1..Len(releases) : releases[i].isBreaking
                  bumped == bumpVersion(pkgs[packageName].version, highestReleaseType,
                                        hasBreakingChange)
              IN IF bumped.threw
                   THEN [threw |-> TRUE, error |-> bumped.value, initial |-> acc]
                   ELSE InitialUpdatesLoop(Tail(order), pkgs, releasesOf,
                          MapSet(acc, packageName,
                                 [version |-> bumped.value,
                                  releaseType |-> highestReleaseType]))

\* ------------------------------------------------------------------------
\* Specification of version()
\* ------------------------------------------------------------------------
\* a declaration line: "name": type, followed by the suffix tokens
Decl(name, type, suffix) == <<Quote, name, Quote, ":", " ", type>> \o suffix

\* a document with the frontmatter lines given and the message "text"
DocOf(lines) == <<<<Dashes>>>> \o lines \o <<<<Dashes>>, <<>>, <<"text">>, <<>>>>

\* the changeset documents version() is run on
VerDocPool ==
  { DocOf(<<Decl("a", "feat", <<>>)>>),
    DocOf(<<Decl("b", "fix", <<"!">>)>>),
    DocOf(<<Decl("d", "feat", <<"@major">>)>>),
    DocOf(<<Decl("d", "fix", <<"!">>)>>),
    DocOf(<<<<"text", " ", "text">>, Decl("x", "chore", <<>>)>>),
    <<<<"text">>>> }

\* the types of the configuration the tests run with
DefaultTypes ==
  << [type |-> <<"feat">>, releaseType |-> "minor"],
     [type |-> <<"fix">>, releaseType |-> "undefined"],
     [type |-> <<"chore">>, releaseType |-> "undefined"] >>

\* "1..0": three segments, the second one empty
EmptySegmentVersion == <<"1", "", "0">>

\* the manifest whose version text is replaced, if any
BadVersionPool ==
  { [pkg |-> "none", version |-> <<>>],
    [pkg |-> "d", version |-> InvalidVersion],
    [pkg |-> "c", version |-> InvalidVersion],
    [pkg |-> "a", version |-> EmptySegmentVersion] }

VerManifests(f, bad) ==
  [p \in Pkgs |-> IF p = bad.pkg
                    THEN [SnapManifests(f)[p] EXCEPT !.version = bad.version]
                    ELSE SnapManifests(f)[p]]

\* at most this many changeset documents in a version run
MaxDocs == 2

VerInit ==
  \E f \in 1..Len(SnapFixtures),
     bad \in BadVersionPool,
     docs \in ListsUpTo(VerDocPool, MaxDocs),
     policy \in Policies,
     dr \in BOOLEAN,
     inst \in BOOLEAN,
     de \in BOOLEAN :
    LET manifests == VerManifests(SnapFixtures[f], bad)
        dsk == [pth \in {PathOf(n) : n \in DOMAIN manifests} |->
                  Original(manifests[pth[2]])]
        logs == [n \in Pkgs |-> IF n = "a" THEN <<"## 1.0.0">> ELSE <<>>]
    IN /\ ~de => (f = 1 /\ bad.pkg = "none" /\ policy = "patch" /\ ~inst)
       /\ dirExists = de
       /\ changesetDocs = docs
       /\ configTypes = DefaultTypes
       /\ updatePolicy = policy
       /\ dryRun = dr
       /\ install = inst
       /\ disk = dsk
       /\ origDisk = dsk
       /\ changelogs = logs
       /\ origChangelogs = logs
       /\ packages = EmptyMap
       /\ dependents = EmptyMap
       /\ packageReleases = EmptyMap
       /\ packageChangelogs = EmptyMap
       /\ updatedPackages = <<>>
       /\ verLog = <<>>
       /\ deletedDocs = <<>>
       /\ installLog = <<>>
       /\ vpc = "start"
       /\ vidx = 0
       /\ initialUpdates = EmptyMap
       /\ allUpdates = EmptyMap
       /\ processed = {}
       /\ queue = <<>>
       /\ cpc = "idle"
       /\ expanded = [n \in Names |-> 0]
       /\ writes = [n \in Names |-> 0]
       /\ updateOrder = <<>>
       /\ changesetFiles = <<>>
       /\ snapshotVersion = <<>>
       /\ backups = <<>>
       /\ spc = "idle"
       /\ sidx = 0
       /\ results = [success |-> 0, failed |-> 0]
       /\ publishLog = <<>>
       /\ pendingError = NoError
       /\ raisedError = NoError
       /\ restoreLog = <<>>
       /\ reported = <<>>
       /\ faults = 0
       /\ DepIdle
       /\ PubIdle
       /\ FnIdle

\* the variables of the snapshot run that version() does not use
snapOnlyVars == <<changesetFiles, snapshotVersion, backups, spc, sidx, results,
                  publishLog, pendingError, restoreLog, reported>>

\* version() returning normally where line 392 calls process.exit(1)
VerStartReturnsOnMissingDir ==
  /\ vpc = "start"
  /\ \E collected \in {CollectReleases(changesetDocs, configTypes)},
        pkgs \in {GraphPackages(DiskManifests(disk))},
        deps \in {GraphDependents(DiskManifests(disk))} :
     \E r \in {InitialUpdatesLoop(KeysInOrder(PkgOrder, DOMAIN pkgs), pkgs,
                                  collected.releases, EmptyMap)} :
        IF ~dirExists
          THEN /\ vpc' = "returned"
               /\ UNCHANGED <<graphVars, packageReleases, packageChangelogs,
                              initialUpdates, cpc, raisedError>>
        ELSE IF changesetDocs = <<>>
          THEN /\ vpc' = "returned"
               /\ UNCHANGED <<graphVars, packageReleases, packageChangelogs,
                              initialUpdates, cpc, raisedError>>
        ELSE IF DOMAIN collected.releases = {}
          THEN /\ vpc' = "returned"
               /\ packageReleases' = collected.releases
               /\ packageChangelogs' = collected.changelogs
               /\ UNCHANGED <<graphVars, initialUpdates, cpc, raisedError>>
        ELSE /\ packageReleases' = collected.releases
             /\ packageChangelogs' = collected.changelogs
             /\ packages' = pkgs
             /\ dependents' = deps
             /\ initialUpdates' = r.initial
             /\ raisedError' = r.error
             /\ vpc' = IF r.threw THEN "raised" ELSE "cascade"
             /\ cpc' = IF r.threw THEN cpc ELSE "seed"
  /\ UNCHANGED <<laterVars, updatePolicy, allUpdates, processed, queue, expanded, writes,
                 updateOrder, depVars, dirExists, dryRun, disk, origDisk, faults,
                 snapOnlyVars, changesetDocs, configTypes, install, changelogs,
                 origChangelogs, updatedPackages, verLog, deletedDocs, installLog,
                 vidx>>


\* lines 387-449: the guard clauses, the parse loop, the graph and the
\* changeset-driven updates.  process.exit(1) is vpc = "exited", an early
\* return is vpc = "returned".
VerStart ==
  /\ vpc = "start"
  /\ \E collected \in {CollectReleases(changesetDocs, configTypes)},
        pkgs \in {GraphPackages(DiskManifests(disk))},
        deps \in {GraphDependents(DiskManifests(disk))} :
     \E r \in {InitialUpdatesLoop(KeysInOrder(PkgOrder, DOMAIN pkgs), pkgs,
                                  collected.releases, EmptyMap)} :
        IF ~dirExists
          THEN /\ vpc' = "exited"
               /\ UNCHANGED <<graphVars, packageReleases, packageChangelogs,
                              initialUpdates, cpc, raisedError>>
        ELSE IF changesetDocs = <<>>
          THEN /\ vpc' = "returned"
               /\ UNCHANGED <<graphVars, packageReleases, packageChangelogs,
                              initialUpdates, cpc, raisedError>>
        ELSE IF DOMAIN collected.releases = {}
          THEN /\ vpc' = "returned"
               /\ packageReleases' = collected.releases
               /\ packageChangelogs' = collected.changelogs
               /\ UNCHANGED <<graphVars, initialUpdates, cpc, raisedError>>
        ELSE /\ packageReleases' = collected.releases
             /\ packageChangelogs' = collected.changelogs
             /\ packages' = pkgs
             /\ dependents' = deps
             /\ initialUpdates' = r.initial
             /\ raisedError' = r.error
             /\ vpc' = IF r.threw THEN "raised" ELSE "cascade"
             /\ cpc' = IF r.threw THEN cpc ELSE "seed"
  /\ UNCHANGED <<laterVars, updatePolicy, allUpdates, processed, queue, expanded, writes,
                 updateOrder, depVars, dirExists, dryRun, disk, origDisk, faults,
                 snapOnlyVars, changesetDocs, configTypes, install, changelogs,
                 origChangelogs, updatedPackages, verLog, deletedDocs, installLog,
                 vidx>>

\* the call of cascadeVersionUpdates with its error swallowed
VerCascadedIgnoresRaise ==
  /\ vpc = "cascade"
  /\ cpc \in {"done", "raised"}
  /\ vpc' = "apply"
  /\ vidx' = 1
  /\ UNCHANGED <<laterVars, graphVars, cascadeVars, depVars, dirExists, dryRun, disk, origDisk,
                 faults, snapOnlyVars, changesetDocs, configTypes, install,
                 packageReleases, packageChangelogs, changelogs, origChangelogs,
                 updatedPackages, verLog, deletedDocs, installLog, raisedError>>

\* lines 452-458: cascadeVersionUpdates has returned or raised
VerCascaded ==
  /\ vpc = "cascade"
  /\ cpc \in {"done", "raised"}
  /\ vpc' = IF cpc = "raised" THEN "raised" ELSE "apply"
  /\ raisedError' = IF cpc = "raised" THEN <<"Invalid version format">> ELSE raisedError
  /\ vidx' = 1
  /\ UNCHANGED <<laterVars, graphVars, cascadeVars, depVars, dirExists, dryRun, disk, origDisk,
                 faults, snapOnlyVars, changesetDocs, configTypes, install,
                 packageReleases, packageChangelogs, changelogs, origChangelogs,
                 updatedPackages, verLog, deletedDocs, installLog>>

\* what one iteration of the apply loop may meet: every write succeeds, the
\* write of the manifest throws, or the read or write of the changelog throws
ApplyOutcomes == {"ok", "manifest write failed", "changelog write failed"}

\* the apply loop that unlinks the changeset documents as soon as the first
\* manifest is written
VerApplyDeletesEarly ==
  /\ vpc = "apply"
  /\ vidx <= Len(updateOrder)
  /\ LET packageName == updateOrder[vidx]
         updateInfo == allUpdates[packageName]
         pkgInfo == packages[packageName]
         versioned == [pkgInfo.packageJson EXCEPT !.version = updateInfo.newVersion]
         dep == updatePackageDependencies(versioned, allUpdates, updateOrder)
         contents == IF <<packageName>> \in DOMAIN packageChangelogs
                       THEN packageChangelogs[<<packageName>>] ELSE <<>>
         newChangelog == generateChangelog(packageName, updateInfo.newVersion,
                                           [k \in 1..Len(contents) |->
                                              changesetDocs[contents[k]]],
                                           dep.dependencyUpdates, configTypes)
     IN IF packageName \notin DOMAIN packages
          THEN UNCHANGED <<packages, disk, changelogs, faults, vpc, raisedError,
                           verLog, updatedPackages>>
          ELSE \E outcome \in ApplyOutcomes :
                 /\ outcome # "ok" => (~dryRun /\ faults < MaxFaults)
                 /\ packages' = [packages EXCEPT ![packageName].packageJson =
                                                   dep.packageJson]
                 /\ disk' = IF dryRun \/ outcome = "manifest write failed" THEN disk
                            ELSE [disk EXCEPT ![pkgInfo.path] =
                                                Stringify(dep.packageJson)]
                 /\ changelogs' = IF dryRun \/ outcome # "ok" THEN changelogs
                                  ELSE [changelogs EXCEPT ![packageName] =
                                                            <<newChangelog>> \o @]
                 /\ faults' = IF outcome = "ok" THEN faults ELSE faults + 1
                 /\ vpc' = IF outcome = "ok" THEN vpc ELSE "raised"
                 /\ raisedError' = IF outcome = "ok" THEN raisedError ELSE <<outcome>>
                 /\ verLog' = IF outcome # "ok" THEN verLog
                              ELSE Append(verLog,
                                     [packageName |-> packageName,
                                      oldVersion |-> updateInfo.oldVersion,
                                      newVersion |-> updateInfo.newVersion,
                                      dependencyUpdates |-> dep.dependencyUpdates])
                 /\ updatedPackages' = IF outcome # "ok" THEN updatedPackages
                                       ELSE Append(updatedPackages, packageName)
  /\ vidx' = vidx + 1
  /\ deletedDocs' = IF dryRun THEN deletedDocs
                    ELSE [i \in 1..Len(changesetDocs) |-> i]
  /\ UNCHANGED <<laterVars, dependents, cascadeVars, depVars, dirExists, dryRun, origDisk,
                 snapOnlyVars, changesetDocs, configTypes, install, packageReleases,
                 packageChangelogs, origChangelogs, installLog>>

\* lines 461-508: one iteration of the apply loop
VerApply ==
  /\ vpc = "apply"
  /\ vidx <= Len(updateOrder)
  /\ LET packageName == updateOrder[vidx]
         updateInfo == allUpdates[packageName]
         pkgInfo == packages[packageName]
         versioned == [pkgInfo.packageJson EXCEPT !.version = updateInfo.newVersion]
         dep == updatePackageDependencies(versioned, allUpdates, updateOrder)
         contents == IF <<packageName>> \in DOMAIN packageChangelogs
                       THEN packageChangelogs[<<packageName>>] ELSE <<>>
         newChangelog == generateChangelog(packageName, updateInfo.newVersion,
                                           [k \in 1..Len(contents) |->
                                              changesetDocs[contents[k]]],
                                           dep.dependencyUpdates, configTypes)
     IN IF packageName \notin DOMAIN packages
          THEN UNCHANGED <<packages, disk, changelogs, faults, vpc, raisedError,
                           verLog, updatedPackages>>
          ELSE \E outcome \in ApplyOutcomes :
                 /\ outcome # "ok" => (~dryRun /\ faults < MaxFaults)
                 /\ packages' = [packages EXCEPT ![packageName].packageJson =
                                                   dep.packageJson]
                 /\ disk' = IF dryRun \/ outcome = "manifest write failed" THEN disk
                            ELSE [disk EXCEPT ![pkgInfo.path] =
                                                Stringify(dep.packageJson)]
                 /\ changelogs' = IF dryRun \/ outcome # "ok" THEN changelogs
                                  ELSE [changelogs EXCEPT ![packageName] =
                                                            <<newChangelog>> \o @]
                 /\ faults' = IF outcome = "ok" THEN faults ELSE faults + 1
                 /\ vpc' = IF outcome = "ok" THEN vpc ELSE "raised"
                 /\ raisedError' = IF outcome = "ok" THEN raisedError ELSE <<outcome>>
                 /\ verLog' = IF outcome # "ok" THEN verLog
                              ELSE Append(verLog,
                                     [packageName |-> packageName,
                                      oldVersion |-> updateInfo.oldVersion,
                                      newVersion |-> updateInfo.newVersion,
                                      dependencyUpdates |-> dep.dependencyUpdates])
                 /\ updatedPackages' = IF outcome # "ok" THEN updatedPackages
                                       ELSE Append(updatedPackages, packageName)
  /\ vidx' = vidx + 1
  /\ UNCHANGED <<laterVars, dependents, cascadeVars, depVars, dirExists, dryRun, origDisk,
                 snapOnlyVars, changesetDocs, configTypes, install, packageReleases,
                 packageChangelogs, origChangelogs, deletedDocs, installLog>>

\* the end of the apply loop without the test of dryRun
VerAppliedIgnoresDryRun ==
  /\ vpc = "apply"
  /\ vidx > Len(updateOrder)
  /\ vpc' = "delete"
  /\ vidx' = 1
  /\ UNCHANGED <<laterVars, graphVars, cascadeVars, depVars, dirExists, dryRun, disk, origDisk,
                 faults, raisedError, snapOnlyVars, changesetDocs, configTypes,
                 install, packageReleases, packageChangelogs, changelogs,
                 origChangelogs, updatedPackages, verLog, deletedDocs, installLog>>

\* lines 510-514: the apply loop is over
VerApplied ==
  /\ vpc = "apply"
  /\ vidx > Len(updateOrder)
  /\ vpc' = IF dryRun THEN "done" ELSE "delete"
  /\ vidx' = 1
  /\ UNCHANGED <<laterVars, graphVars, cascadeVars, depVars, dirExists, dryRun, disk, origDisk,
                 faults, raisedError, snapOnlyVars, changesetDocs, configTypes,
                 install, packageReleases, packageChangelogs, changelogs,
                 origChangelogs, updatedPackages, verLog, deletedDocs, installLog>>

\* lines 515-518: one unlinkSync; a throw leaves version()
VerDelete ==
  /\ vpc = "delete"
  /\ vidx <= Len(changesetDocs)
  /\ \E ok \in BOOLEAN :
       /\ ~ok => faults < MaxFaults
       /\ faults' = IF ok THEN faults ELSE faults + 1
       /\ deletedDocs' = IF ok THEN Append(deletedDocs, vidx) ELSE deletedDocs
       /\ vpc' = IF ok THEN vpc ELSE "raised"
       /\ raisedError' = IF ok THEN raisedError ELSE <<"unlink failed">>
  /\ vidx' = vidx + 1
  /\ UNCHANGED <<laterVars, graphVars, cascadeVars, depVars, dirExists, dryRun, disk, origDisk,
                 snapOnlyVars, changesetDocs, configTypes, install, packageReleases,
                 packageChangelogs, changelogs, origChangelogs, updatedPackages,
                 verLog, installLog>>

\* what detect() may return: nothing, npm, or an agent the switch does not know
Agents == {"null", "npm", "deno"}

\* lines 520-561: the changesets are deleted; the install
VerInstall ==
  /\ vpc = "delete"
  /\ vidx > Len(changesetDocs)
  /\ IF install /\ ~dryRun /\ Len(updatedPackages) > 0
       THEN \E agent \in Agents, ok \in BOOLEAN :
              /\ (agent # "npm") => ok
              /\ ~ok => faults < MaxFaults
              /\ faults' = IF ok THEN faults ELSE faults + 1
              /\ installLog' = IF agent = "npm" THEN Append(installLog, "npm install")
                               ELSE installLog
              /\ vpc' = IF ok THEN "done" ELSE "raised"
              /\ raisedError' = IF ok THEN raisedError ELSE <<"install failed">>
       ELSE /\ vpc' = "done"
            /\ UNCHANGED <<faults, installLog, raisedError>>
  /\ UNCHANGED <<laterVars, graphVars, cascadeVars, depVars, dirExists, dryRun, disk, origDisk,
                 snapOnlyVars, changesetDocs, configTypes, install, packageReleases,
                 packageChangelogs, changelogs, origChangelogs, updatedPackages,
                 verLog, deletedDocs, vidx>>

VerNext ==
  \/ VerStart \/ CascadeSeed \/ CascadeStep \/ CascadeReturn \/ VerCascaded
  \/ VerApply \/ VerApplied \/ VerDelete \/ VerInstall

VerSpec == VerInit /\ [][VerNext]_vars

\* ------------------------------------------------------------------------
\* The two commands: one run of version() or one run of snapshot()
\* ------------------------------------------------------------------------
CommandInit == VerInit \/ SnapInit

CommandNext ==
  \/ VerStart \/ CascadeSeed \/ CascadeStep \/ CascadeReturn \/ VerCascaded
  \/ VerApply \/ VerApplied \/ VerDelete \/ VerInstall
  \/ SnapStart \/ SnapBackup \/ SnapUpdate \/ SnapPublish \/ SnapRestore \/ SnapCatch

CommandSpec == CommandInit /\ [][CommandNext]_vars

\* ------------------------------------------------------------------------
\* Properties of version() and of the two commands
\* ------------------------------------------------------------------------
VerRunning == vpc # "idle"
SnapRunning == spc # "idle"

\* the releases the documents of the run declare, by package
DeclaredReleases == CollectReleases(changesetDocs, configTypes).releases

\* the packages of the repository that a changeset names
DeclaredPackages == {n \in Pkgs : <<n>> \in DOMAIN DeclaredReleases}

DeclaredType(n) == getHighestReleaseType(DeclaredReleases[<<n>>])

\* the packages a version run updates, from its inputs alone: the declared
\* packages, and their dependents as the policy admits them
ExpectedUpdated ==
  DeclaredPackages \cup
    (IF updatePolicy = "patch"
       THEN UNION {TransitiveDependents(p) : p \in DeclaredPackages}
       ELSE UNION {DirectDependents(p) :
                     p \in {q \in DeclaredPackages :
                              PolicyPasses(updatePolicy, DeclaredType(q))}})

\* the version a version run gives package n, from its inputs alone
ExpectedVersion(n) ==
  LET old == origDisk[PathOf(n)].json.version IN
  IF n \in DeclaredPackages
    THEN bumpVersion(old, DeclaredType(n),
                     \E i \in 1..Len(DeclaredReleases[<<n>>]) :
                       DeclaredReleases[<<n>>][i].isBreaking).value
    ELSE bumpVersion(old, "patch", FALSE).value

\* C12: a dry run mutates nothing.  In version({dryRun: true}) no manifest
\* and no changelog is written, no changeset document is deleted and no
\* install is run, at any point of the run; when the run is over it has
\* reported exactly the updates a real run reports: the packages and the
\* versions that follow from the documents, the manifests and the policy
\* alone.  In snapshot({dryRun: true}) no backup is taken, no manifest is
\* written and nothing is published.
C12_DryRunMutatesNothing ==
  /\ (VerRunning /\ dryRun) =>
       /\ disk = origDisk
       /\ changelogs = origChangelogs
       /\ deletedDocs = <<>>
       /\ installLog = <<>>
  /\ (VerRunning /\ vpc = "done") =>
       /\ {verLog[i].packageName : i \in 1..Len(verLog)} = ExpectedUpdated
       /\ Len(verLog) = Cardinality(ExpectedUpdated)
       /\ \A i \in 1..Len(verLog) :
            /\ verLog[i].oldVersion = origDisk[PathOf(verLog[i].packageName)].json.version
            /\ verLog[i].newVersion = ExpectedVersion(verLog[i].packageName)
  /\ (SnapRunning /\ dryRun) =>
       /\ backups = <<>>
       /\ disk = origDisk
       /\ publishLog = <<>>
       /\ restoreLog = <<>>
       /\ spc \in {"start", "exited", "done"}

\* a dry run of version() that reported a changeset-driven update and a
\* cascaded one, with the install option set
C12_Witness ==
  /\ vpc = "done"
  /\ dryRun
  /\ install
  /\ Len(verLog) >= 2
  /\ \E i \in 1..Len(verLog) : verLog[i].packageName \notin DeclaredPackages
  /\ \E i \in 1..Len(verLog) : verLog[i].dependencyUpdates # <<>>

\* the manifest and the changelog of package n hold its update
VerWritten(n) ==
  /\ packages[n].packageJson.version = allUpdates[n].newVersion
  /\ disk[PathOf(n)] = Stringify(packages[n].packageJson)
  /\ Len(changelogs[n]) = Len(origChangelogs[n]) + 1
  /\ changelogs[n][1].version = allUpdates[n].newVersion
  /\ SubSeq(changelogs[n], 2, Len(changelogs[n])) = origChangelogs[n]

AllDocs == [i \in 1..Len(changesetDocs) |-> i]

\* C13: in a version run that is not a dry run, a changeset document is
\* deleted only when the manifest and the changelog of every package of the
\* result have been written; when the run raises because a version is
\* rejected or a manifest or changelog write fails, no document has been
\* deleted; when the run returns after the apply loop, every document the
\* glob found has been deleted, in order.
C13_DeleteAfterWrites ==
  /\ deletedDocs # <<>> =>
       /\ ~dryRun
       /\ vpc \in {"delete", "done", "raised"}
       /\ \A n \in ListSet(updateOrder) : VerWritten(n)
       /\ updatedPackages = updateOrder
  /\ (vpc = "raised" /\ raisedError \in {<<"manifest write failed">>,
                                         <<"changelog write failed">>,
                                         <<"Invalid version format">>}) =>
       deletedDocs = <<>>
  /\ deletedDocs = SubSeq(AllDocs, 1, Len(deletedDocs))
  /\ (vpc = "done" /\ ~dryRun) => deletedDocs = AllDocs
  /\ (vpc = "raised" /\ raisedError = <<"install failed">>) => deletedDocs = AllDocs

\* a run that wrote a changeset-driven and a cascaded package, then deleted
\* its two documents
C13_Witness ==
  /\ vpc = "done"
  /\ ~dryRun
  /\ Len(deletedDocs) = 2
  /\ Len(updateOrder) >= 2
  /\ \E n \in ListSet(updateOrder) : allUpdates[n].reason = "dependency"

\* the version text is not three numbers: split(".").map(Number) has another
\* length than 3 or holds a NaN
NotThreeNumbers(version) ==
  Len(version) # 3 \/ \E i \in 1..Len(version) : Number(version[i]) = NaN

\* C14: no partial result on an invalid version.  When a package with a
\* changeset, or a package the cascade reaches, has a manifest version that
\* is not three numeric dot-separated segments, the version run raises
\* before the apply loop: no manifest and no changelog is written and no
\* changeset document is deleted, and the error is the invalid version.
C14_NoPartialResult ==
  (VerRunning /\ dirExists
     /\ \E n \in ExpectedUpdated : NotThreeNumbers(origDisk[PathOf(n)].json.version)) =>
    /\ vpc \in {"start", "cascade", "raised"}
    /\ disk = origDisk
    /\ changelogs = origChangelogs
    /\ deletedDocs = <<>>
    /\ installLog = <<>>
    /\ verLog = <<>>
    /\ vpc = "raised" => raisedError = <<"Invalid version format">>
    /\ (cpc \in {"done", "raised"} /\ vpc = "cascade") => cpc = "raised"

\* the cascade reached the package with the invalid version after it had
\* computed the update of a changeset package; the run raised
C14_Witness ==
  /\ vpc = "raised"
  /\ cpc = "raised"
  /\ ~dryRun
  /\ DOMAIN allUpdates # {}
  /\ NotThreeNumbers(origDisk[PathOf("c")].json.version)
  /\ "c" \notin DeclaredPackages


\* ------------------------------------------------------------------------
\* publish(): the publish loop, in the two revisions of publish.ts
\* ------------------------------------------------------------------------
\* the revision index.ts calls with githubToken and draft
Current == "part_006"
\* the revision kept at src/src/publish.ts
Earlier == "src/src/publish.ts"

\* at most this many packages are found by findPackages
MaxPublish == 2

\* the PackageInfo records findPackages may return
PubPool ==
  { [name |-> "a", isPrivate |-> FALSE],
    [name |-> "b", isPrivate |-> TRUE],
    [name |-> "c", isPrivate |-> FALSE] }

\* what git, the registry and the GitHub API answer for one package:
\* tagExists is tagExistsRemote's result, changelog is whether
\* getChangelogForVersion finds a section, the others are whether the step
\* succeeds
Environments ==
  [tagExists : BOOLEAN, tagOk : BOOLEAN, npmOk : BOOLEAN,
   changelog : BOOLEAN, releaseOk : BOOLEAN]

\* one entry of the history of steps
Step(pkg, step, ok) == [name |-> pkg.name, step |-> step, ok |-> ok]

\* lines 108-123: the tag is created and pushed unless dryRun or it exists;
\* a failure is logged and rethrown
TagStep(pkg, dry, env) ==
  IF dry \/ env.tagExists
    THEN [log |-> <<>>, threw |-> FALSE]
    ELSE [log |-> <<Step(pkg, "tag", env.tagOk)>>, threw |-> ~env.tagOk]

\* lines 125-139: publishToNpm is called for a public package outside a dry run
NpmStep(pkg, dry, env) ==
  IF pkg.isPrivate \/ dry
    THEN [log |-> <<>>, threw |-> FALSE]
    ELSE [log |-> <<Step(pkg, "npm", env.npmOk)>>, threw |-> ~env.npmOk]

\* lines 141-167 and createGitHubRelease: outside a dry run the release is
\* created when the changelog has a section for the version
ReleaseStep(pkg, dry, env) ==
  IF dry \/ ~env.changelog
    THEN [log |-> <<>>, threw |-> FALSE]
    ELSE [log |-> <<Step(pkg, "release", env.releaseOk)>>, threw |-> ~env.releaseOk]

\* publishPackage of part_006: a tag failure is rethrown, a registry or a
\* release failure is caught and logged
publishPackage(pkg, dry, env) ==
  LET tag == TagStep(pkg, dry, env)
      npm == NpmStep(pkg, dry, env)
      release == ReleaseStep(pkg, dry, env)
  IN IF tag.threw
       THEN [log |-> tag.log, threw |-> TRUE]
       ELSE [log |-> tag.log \o npm.log \o release.log, threw |-> FALSE]

\* publishPackage of src/src/publish.ts: every failure propagates
publishPackageEarlier(pkg, dry, env) ==
  LET tag == TagStep(pkg, dry, env)
      npm == NpmStep(pkg, dry, env)
      release == ReleaseStep(pkg, dry, env)
  IN IF tag.threw THEN [log |-> tag.log, threw |-> TRUE]
     ELSE IF npm.threw THEN [log |-> tag.log \o npm.log, threw |-> TRUE]
     ELSE [log |-> tag.log \o npm.log \o release.log, threw |-> release.threw]

PubInit ==
  \E rev \in {Current, Earlier},
     dry \in BOOLEAN,
     found \in ListsUpTo(PubPool, MaxPublish) :
    /\ pubRevision = rev
    /\ pubPackages = found
    /\ pubDryRun = dry
    /\ pubResults = [success |-> 0, failed |-> 0]
    /\ pubLog = <<>>
    /\ pubRaised = <<>>
    /\ ppc = "start"
    /\ pidx = 0
    /\ packages = EmptyMap
    /\ dependents = EmptyMap
    /\ CascadeIdle /\ DepIdle /\ SnapIdle /\ VerIdle /\ FnIdle

\* part_006 lines 23-37, src/src/publish.ts lines 18-30
PubStart ==
  /\ ppc = "start"
  /\ ppc' = IF Len(pubPackages) = 0 THEN "returned" ELSE "loop"
  /\ pidx' = IF Len(pubPackages) = 0 THEN 0 ELSE 1
  /\ UNCHANGED <<graphVars, cascadeVars, depVars, snapVars, verVars, fnVars,
                 pubRevision, pubPackages, pubDryRun, pubResults, pubLog, pubRaised>>

\* part_006 lines 39-51: one iteration of the loop, with its try and catch
PubPublish ==
  /\ ppc = "loop"
  /\ pidx <= Len(pubPackages)
  /\ pubRevision = Current
  /\ \E env \in Environments :
       \E r \in {publishPackage(pubPackages[pidx], pubDryRun, env)} :
         /\ pubLog' = pubLog \o r.log
         /\ pubResults' = IF r.threw
                            THEN [pubResults EXCEPT !.failed = @ + 1]
                            ELSE [pubResults EXCEPT !.success = @ + 1]
  /\ pidx' = pidx + 1
  /\ UNCHANGED <<graphVars, cascadeVars, depVars, snapVars, verVars, fnVars,
                 pubRevision, pubPackages, pubDryRun, pubRaised, ppc>>

\* src/src/publish.ts lines 32-34: one iteration of the loop; there is no
\* try and no tally
PubPublishEarlier ==
  /\ ppc = "loop"
  /\ pidx <= Len(pubPackages)
  /\ pubRevision = Earlier
  /\ \E env \in Environments :
       \E r \in {publishPackageEarlier(pubPackages[pidx], pubDryRun, env)} :
         /\ pubLog' = pubLog \o r.log
         /\ IF r.threw
              THEN /\ pubRaised' = <<"Error", pubPackages[pidx].name>>
                   /\ ppc' = "raised"
                   /\ UNCHANGED pidx
              ELSE /\ pidx' = pidx + 1
                   /\ UNCHANGED <<ppc, pubRaised>>
  /\ UNCHANGED <<graphVars, cascadeVars, depVars, snapVars, verVars, fnVars,
                 pubRevision, pubPackages, pubDryRun, pubResults>>

\* part_006 lines 53-58, src/src/publish.ts lines 36-41
PubComplete ==
  /\ ppc = "loop"
  /\ pidx > Len(pubPackages)
  /\ ppc' = "done"
  /\ UNCHANGED <<graphVars, cascadeVars, depVars, snapVars, verVars, fnVars,
                 pubRevision, pubPackages, pubDryRun, pubResults, pubLog, pubRaised,
                 pidx>>

PubNext == PubStart \/ PubPublish \/ PubPublishEarlier \/ PubComplete

PubSpec == PubInit /\ [][PubNext]_vars

\* publish() has ended, normally or not
PubEnded == ppc \in {"done", "returned", "raised"}

\* the number of packages whose publishPackage call has ended
PubProcessed == IF ppc = "raised" THEN pidx ELSE pidx - 1

\* failure isolation as the claim states it
FailureIsolation ==
  /\ ppc # "raised"
  /\ pubRaised = <<>>
  /\ ppc = "done" =>
       /\ PubProcessed = Len(pubPackages)
       /\ pubResults.success + pubResults.failed = Len(pubPackages)

\* C15: in the publish loop a failure of the tag, the registry publish or the
\* release step of one package never keeps the remaining packages from being
\* processed; publish() completes without raising and
\* success + failed = the number of packages found
C15_FailureIsolation == FailureIsolation

\* C15, the failing run: the earlier revision raises at a package that is
\* not the last one, and the packages after it are never processed
C15_Witness ==
  /\ pubRevision = Earlier
  /\ ppc = "raised"
  /\ pidx < Len(pubPackages)
  /\ pubResults.success + pubResults.failed # Len(pubPackages)

\* the revision of part_006 does isolate the failures: with a failed step
\* in the history it still ends with every package tallied
IsolationInCurrentRevision == pubRevision = Current => FailureIsolation

IsolationExercised ==
  /\ pubRevision = Current
  /\ ppc = "done"
  /\ pubResults.failed > 0
  /\ pubResults.success > 0
  /\ \E i \in 1..Len(pubLog) : pubLog[i].step = "npm" /\ ~pubLog[i].ok


\* ------------------------------------------------------------------------
\* the guard clauses of version() and snapshot()
\* ------------------------------------------------------------------------
\* the exit status of the version command: line 392 exits with 1, index.ts
\* line 324 exits with 0 after version() returned, a rejection ends the
\* process with a failure status
VerExitStatus ==
  IF vpc = "exited" THEN 1
  ELSE IF vpc \in {"returned", "done"} THEN 0
  ELSE IF vpc = "raised" THEN 1
  ELSE -1

\* the guards of version.ts 390-403 and 420-423, read off the inputs
VerDirMissing == ~dirExists
VerNoFiles == dirExists /\ changesetDocs = <<>>
VerNoReleases ==
  dirExists /\ changesetDocs # <<>> /\ DOMAIN DeclaredReleases = {}

\* the guards of snapshot.ts 142-190, read off the inputs
SnapDirMissing == ~dirExists
SnapNoFiles == changesetFiles = <<>>
SnapNoAffected == findAffectedPackages(changesetFiles) = <<>>
SnapNotInGraph ==
  \E n \in ListSet(findAffectedPackages(changesetFiles)) :
    n \notin DOMAIN GraphPackages(DiskManifests(origDisk))

\* version() has written, deleted and installed nothing
VerUntouched ==
  /\ disk = origDisk
  /\ changelogs = origChangelogs
  /\ deletedDocs = <<>>
  /\ installLog = <<>>
  /\ verLog = <<>>

\* snapshot() has written and published nothing
SnapUntouched ==
  /\ disk = origDisk
  /\ backups = <<>>
  /\ publishLog = <<>>
  /\ restoreLog = <<>>

\* C16 as stated: a missing .changeset directory, no changeset files, or
\* (snapshot) no affected package or an affected package missing from the
\* graph make the version and the snapshot command end with a non-zero exit
\* status, before anything is written, deleted or published
C16_GuardExitsNonZero ==
  /\ (VerRunning /\ vpc # "start" /\ (VerDirMissing \/ VerNoFiles)) =>
       /\ VerExitStatus > 0
       /\ VerUntouched
  /\ (SnapRunning /\ spc # "start"
        /\ (SnapDirMissing \/ SnapNoFiles \/ SnapNoAffected \/ SnapNotInGraph)) =>
       /\ spc = "exited"
       /\ SnapUntouched

\* C16, amended: version() exits with status 1 only for a missing .changeset
\* directory; when no changeset files or no releases are found it reports
\* that and returns normally, so the command ends with status 0; snapshot()
\* exits with status 1 in each of its four cases, and for no other reason;
\* in every one of these cases nothing is written, deleted or published
C16_GuardExits ==
  /\ (VerRunning /\ vpc # "start") =>
       /\ VerDirMissing <=> vpc = "exited"
       /\ (VerNoFiles \/ VerNoReleases) <=> vpc = "returned"
       /\ vpc \in {"exited", "returned"} => VerUntouched
       /\ vpc = "exited" => VerExitStatus = 1
       /\ vpc = "returned" => VerExitStatus = 0
  /\ (SnapRunning /\ spc # "start") =>
       /\ (SnapDirMissing \/ SnapNoFiles \/ SnapNoAffected \/ SnapNotInGraph)
            <=> spc = "exited"
       /\ spc = "exited" => SnapUntouched

\* C16: a version run over a repository with a .changeset directory and no
\* changeset files has returned
C16_Witness ==
  /\ vpc = "returned"
  /\ VerNoFiles
  /\ origDisk # EmptyMap


\* ------------------------------------------------------------------------
\* bumpVersion called on its own
\* ------------------------------------------------------------------------
\* the segment texts a version is drawn from: numerals, the empty text, a
\* negative number and a text that is no number
SegmentPool == {"0", "1", "2", "9", "", "-1", "x"}

\* a version text has at most this many segments
MaxSegments == 4

\* split(".") returns at least one segment
VersionTexts == ListsUpTo(SegmentPool, MaxSegments) \ {<<>>}

BumpInit ==
  \E v \in VersionTexts, t \in ReleaseTypes, b \in BOOLEAN :
    /\ fnArgs = [fn |-> "bumpVersion", version |-> v, releaseType |-> t,
                 isBreaking |-> b]
    /\ fnResult = <<>>
    /\ fpc = "called"
    /\ packages = EmptyMap
    /\ dependents = EmptyMap
    /\ CascadeIdle /\ DepIdle /\ SnapIdle /\ VerIdle /\ PubIdle

\* lines 95-117
BumpCall ==
  /\ fpc = "called"
  /\ fnArgs.fn = "bumpVersion"
  /\ fnResult' = bumpVersion(fnArgs.version, fnArgs.releaseType, fnArgs.isBreaking)
  /\ fpc' = "returned"
  /\ UNCHANGED <<graphVars, cascadeVars, depVars, snapVars, verVars, pubVars, fnArgs>>

BumpNext == BumpCall

BumpSpec == BumpInit /\ [][BumpNext]_vars

\* a segment that is a non-negative integer in decimal digits
IsNumeral(s) == \E i \in 1..Len(Numerals) : Numerals[i] = s

\* the number a numeral denotes
Decimal(s) == (CHOOSE i \in 1..Len(Numerals) : Numerals[i] = s) - 1

\* exactly three dot-separated non-negative integer components
ValidVersion(v) == Len(v) = 3 /\ \A i \in 1..3 : IsNumeral(v[i])

\* the reference function on the numbers X, Y, Z
Reference(X, Y, Z, releaseType, isBreaking) ==
  IF releaseType = "patch" THEN <<X, Y, Z + 1>>
  ELSE IF releaseType = "minor" THEN <<X, Y + 1, 0>>
  ELSE IF isBreaking /\ X = 0 THEN <<0, Y + 1, 0>>
  ELSE <<X + 1, 0, 0>>

\* the segment a release type increments
BumpedSegment(releaseType) ==
  IF releaseType = "major" THEN 1 ELSE IF releaseType = "minor" THEN 2 ELSE 3

BumpReturned == fpc = "returned" /\ fnArgs.fn = "bumpVersion"

\* C17: on a valid X.Y.Z bumpVersion returns the text of the reference
\* function's result: patch X.Y.(Z+1), minor X.(Y+1).0, major (X+1).0.0,
\* except major with isBreaking and X = 0, which gives 0.(Y+1).0; with
\* isBreaking false exactly one segment grows by one, the segments to its
\* right are zero and the segments to its left are unchanged; isBreaking
\* changes nothing for patch and minor or when X >= 1
C17_BumpEqualsReference ==
  (BumpReturned /\ ValidVersion(fnArgs.version)) =>
    LET v == fnArgs.version
        t == fnArgs.releaseType
        X == Decimal(v[1])
        Y == Decimal(v[2])
        Z == Decimal(v[3])
        ref == Reference(X, Y, Z, t, fnArgs.isBreaking)
        k == BumpedSegment(t)
    IN /\ ~fnResult.threw
       /\ fnResult.value = <<Str(ref[1]), Str(ref[2]), Str(ref[3])>>
       /\ ~fnArgs.isBreaking =>
            /\ fnResult.value[k] = Str(Decimal(v[k]) + 1)
            /\ \A i \in 1..3 : i > k => fnResult.value[i] = "0"
            /\ \A i \in 1..3 : i < k => fnResult.value[i] = v[i]
       /\ (t # "major" \/ X >= 1) =>
            fnResult = bumpVersion(v, t, ~fnArgs.isBreaking)

\* C17: a breaking major bump of 0.9.2 has returned 0.10.0
C17_Witness ==
  /\ BumpReturned
  /\ fnArgs.version = <<"0", "9", "2">>
  /\ fnArgs.releaseType = "major"
  /\ fnArgs.isBreaking
  /\ fnResult = Returned(<<"0", "10", "0">>)

\* C18: bumpVersion raises 'Invalid version format', and returns no
\* version, for every input that is not exactly three dot-separated
\* non-negative integer components
C18_InvalidVersionRaises ==
  (BumpReturned /\ ~ValidVersion(fnArgs.version)) =>
    fnResult = Threw("Invalid version format")

\* C18, the failing input: 1..0 is bumped to 1.0.1
C18_Witness ==
  /\ BumpReturned
  /\ fnArgs.version = <<"1", "", "0">>
  /\ fnArgs.releaseType = "patch"
  /\ fnResult = Returned(<<"1", "0", "1">>)

\* what the check of lines 100-104 does reject: a segment count other than
\* three, or a segment Number() turns into NaN
RejectedByCheck ==
  (BumpReturned /\ (Len(fnArgs.version) # 3
                     \/ \E i \in 1..Len(fnArgs.version) : fnArgs.version[i] = "x")) =>
    fnResult = Threw("Invalid version format")


\* ------------------------------------------------------------------------
\* parseChangesetFile called on its own
\* ------------------------------------------------------------------------
\* at most this many lines stand between the delimiters
MaxLines == 3

NoSuffix == <<>>

\* valid declaration lines: a configured type with and without a release
\* type, a type no configuration names, each with every suffix
ValidLines ==
  {Decl(n, t, sfx) : n \in {"a"}, t \in {"feat", "fix", "text"},
                     sfx \in {NoSuffix, <<"!">>, <<"@major">>}}
    \cup {Decl("b", "feat", <<"@minor">>)}

\* a line that is no declaration and begins with three dashes
DashLine == <<Dashes, " ", "text">>

\* lines the pattern of line 61 does not match: prose, an empty line, and a
\* line that begins with three dashes
JunkLines == {<<"text", " ", "text">>, <<>>, DashLine}

\* configurations with one entry per type
TypesPool ==
  { DefaultTypes,
    <<>>,
    << [type |-> <<"fix">>, releaseType |-> "minor"],
       [type |-> <<"feat">>, releaseType |-> "patch"] >> }

\* the shapes of a document: both delimiters and a message, no delimiter
\* at all, no closing delimiter
Shapes == {"framed", "bare", "unclosed"}

Document(shape, lines) ==
  IF shape = "framed" THEN DocOf(lines)
  ELSE IF shape = "bare" THEN lines \o <<<<>>, <<"text">>, <<>>>>
  ELSE <<<<Dashes>>>> \o lines \o <<<<>>, <<"text">>, <<>>>>

ParseInit ==
  \E shape \in Shapes,
     lines \in ListsUpTo(ValidLines \cup JunkLines, MaxLines),
     types \in TypesPool :
    /\ fnArgs = [fn |-> "parseChangesetFile", doc |-> Document(shape, lines),
                 types |-> types, lines |-> lines, shape |-> shape]
    /\ fnResult = <<>>
    /\ fpc = "called"
    /\ packages = EmptyMap
    /\ dependents = EmptyMap
    /\ CascadeIdle /\ DepIdle /\ SnapIdle /\ VerIdle /\ PubIdle

\* lines 44-85
ParseCall ==
  /\ fpc = "called"
  /\ fnArgs.fn = "parseChangesetFile"
  /\ fnResult' = parseChangesetFile(fnArgs.doc, fnArgs.types)
  /\ fpc' = "returned"
  /\ UNCHANGED <<graphVars, cascadeVars, depVars, snapVars, verVars, pubVars, fnArgs>>

ParseNext == ParseCall

ParseSpec == ParseInit /\ [][ParseNext]_vars

ParseReturned == fpc = "returned" /\ fnArgs.fn = "parseChangesetFile"

\* the members of a list that belong to S, in order
RECURSIVE Filter(_, _)
Filter(l, S) ==
  IF l = <<>> THEN <<>>
  ELSE (IF Head(l) \in S THEN <<Head(l)>> ELSE <<>>) \o Filter(Tail(l), S)

\* the valid declaration lines of the document, in document order
Declarations == Filter(fnArgs.lines, ValidLines)

\* the parts of a line built by Decl
DeclName(line) == <<line[2]>>
DeclType(line) == <<line[6]>>
DeclSuffix(line) == IF Len(line) >= 7 THEN line[7] ELSE "none"

\* the configured release types of a declared type
Configured(types, t) ==
  {types[i].releaseType : i \in {j \in 1..Len(types) : types[j].type = t}}
    \ {"undefined"}

\* C19: a declaration with the suffix ! or @major resolves to major whatever
\* release type the configuration gives its type; without such a suffix the
\* configured release type of the declared type is used when there is one;
\* otherwise (type not configured, or configured without a release type)
\* the result is patch
C19_ReleaseTypePrecedence ==
  ParseReturned =>
    /\ Len(fnResult) <= Len(Declarations)
    /\ \A k \in 1..Len(fnResult) :
         LET line == Declarations[k]
             conf == Configured(fnArgs.types, DeclType(line))
         IN /\ fnResult[k].changesetType = DeclType(line)
            /\ DeclSuffix(line) \in {"!", "@major"} => fnResult[k].type = "major"
            /\ (DeclSuffix(line) \notin {"!", "@major"} /\ conf # {}) =>
                 fnResult[k].type \in conf
            /\ (DeclSuffix(line) \notin {"!", "@major"} /\ conf = {}) =>
                 fnResult[k].type = "patch"

\* C19: a feat declaration with the breaking suffix, under a configuration
\* that gives feat the release type minor, has resolved to major, and a
\* feat declaration without suffix in the same document to minor
C19_Witness ==
  /\ ParseReturned
  /\ fnArgs.types = DefaultTypes
  /\ \E k \in 1..Len(fnResult) :
       /\ Declarations[k] = Decl("a", "feat", <<"!">>)
       /\ fnResult[k].type = "major"
  /\ \E k \in 1..Len(fnResult) :
       /\ Declarations[k] = Decl("a", "feat", NoSuffix)
       /\ fnResult[k].type = "minor"

\* the records a document must yield: one for each valid declaration line,
\* in document order, with the trimmed message
RecordsMatchDeclarations ==
  /\ Len(fnResult) = Len(Declarations)
  /\ \A k \in 1..Len(fnResult) :
       /\ fnResult[k].packageName = DeclName(Declarations[k])
       /\ fnResult[k].changesetType = DeclType(Declarations[k])
       /\ fnResult[k].message = <<"text">>

\* C20: a document whose frontmatter block holds N valid declaration lines
\* and M unparseable lines, in any order, yields exactly N records in
\* document order, each with the same trimmed message; a document without
\* frontmatter delimiters or with an empty block yields the empty list
C20_ValidLinesSurvive ==
  ParseReturned =>
    /\ fnArgs.shape = "framed" => RecordsMatchDeclarations
    /\ fnArgs.shape = "bare" => fnResult = <<>>
    /\ (fnArgs.shape = "framed" /\ fnArgs.lines = <<>>) => fnResult = <<>>

\* C20, the failing input: a declaration, a line that begins with three
\* dashes, a second declaration; only the first declaration is returned
C20_Witness ==
  /\ ParseReturned
  /\ fnArgs.shape = "framed"
  /\ fnArgs.lines = <<Decl("a", "feat", NoSuffix), DashLine, Decl("a", "fix", NoSuffix)>>
  /\ Len(fnResult) = 1
  /\ fnResult[1].changesetType = <<"feat">>

\* no line of the block, from the second on, begins with three dashes
NoDashLineInside ==
  \A i \in 2..Len(fnArgs.lines) : fnArgs.lines[i] # DashLine

\* without such a line the statement of C20 holds
ValidLinesSurviveWithoutDashLine ==
  (ParseReturned /\ NoDashLineInside) =>
    /\ fnArgs.shape = "framed" => RecordsMatchDeclarations
    /\ fnArgs.shape \in {"bare", "unclosed"} => fnResult = <<>>

InterleavedExercised ==
  /\ ParseReturned
  /\ fnArgs.shape = "framed"
  /\ fnArgs.lines = <<DashLine, Decl("a", "feat", NoSuffix), <<"text", " ", "text">>>>
  /\ Len(fnResult) = 1


\* ------------------------------------------------------------------------
\* generateChangelog called on the documents of a package
\* ------------------------------------------------------------------------
\* at most this many changeset documents are given
MaxLogDocs == 3

\* the package the section is generated for
Target == "a"

\* the frontmatter blocks of the documents: one declaration of the target
\* with each kind of type and suffix, a declaration of another package, and
\* blocks with two declarations
Blocks ==
  { <<Decl("a", "feat", NoSuffix)>>,
    <<Decl("a", "fix", NoSuffix)>>,
    <<Decl("a", "fix", <<"!">>)>>,
    <<Decl("a", "chore", <<"@major">>)>>,
    <<Decl("a", "text", NoSuffix)>>,
    <<Decl("a", "x", NoSuffix)>>,
    <<Decl("b", "feat", <<"!">>)>>,
    <<Decl("b", "feat", <<"!">>), Decl("a", "feat", NoSuffix)>>,
    <<Decl("a", "fix", NoSuffix), Decl("a", "feat", <<"!">>)>>,
    <<Decl("a", "feat", <<"!">>), Decl("a", "fix", NoSuffix)>> }

\* the message of the k-th document
Messages == <<"m1", "m2", "m3", "m4">>

\* the k-th document: its block between the delimiters, then its message
LogDoc(lines, k) == <<<<Dashes>>>> \o lines \o <<<<Dashes>>, <<>>, <<Messages[k]>>, <<>>>>

\* how the documents reach generateChangelog: passed as they are, or
\* collected by version() into packageChangelogs, once per release
Vias == {"direct", "version"}

\* the changesetContents of line 476 for a package
ContentsOf(docs, types, packageName) ==
  LET collected == CollectReleases(docs, types).changelogs
  IN IF <<packageName>> \in DOMAIN collected
       THEN [k \in 1..Len(collected[<<packageName>>]) |->
               docs[collected[<<packageName>>][k]]]
       ELSE <<>>

\* the dependency updates passed at line 482: none, or one
DependencyUpdatesPool ==
  {<<>>, <<[name |-> "d", from |-> <<"^0", "0", "1">>, to |-> <<"^0", "0", "2">>]>>}

LogInit ==
  \E blocks \in ListsUpTo(Blocks, MaxLogDocs),
     types \in TypesPool,
     via \in Vias,
     updates \in DependencyUpdatesPool :
    /\ fnArgs = [fn |-> "generateChangelog",
                 packageName |-> Target,
                 dependencyUpdates |-> updates,
                 blocks |-> blocks,
                 docs |-> [k \in 1..Len(blocks) |-> LogDoc(blocks[k], k)],
                 types |-> types,
                 via |-> via]
    /\ fnResult = <<>>
    /\ fpc = "called"
    /\ packages = EmptyMap
    /\ dependents = EmptyMap
    /\ CascadeIdle /\ DepIdle /\ SnapIdle /\ VerIdle /\ PubIdle

\* lines 408-418 and 476-482, then lines 301-385
LogCall ==
  /\ fpc = "called"
  /\ fnArgs.fn = "generateChangelog"
  /\ \E contents \in {IF fnArgs.via = "direct" THEN fnArgs.docs
                      ELSE ContentsOf(fnArgs.docs, fnArgs.types, fnArgs.packageName)} :
       fnResult' =
         [releases |-> [k \in 1..Len(fnArgs.docs) |->
                          parseChangesetFile(fnArgs.docs[k], fnArgs.types)],
          contents |-> contents,
          changelog |-> generateChangelog(fnArgs.packageName, <<"1", "0", "0">>,
                                          contents, fnArgs.dependencyUpdates,
                                          fnArgs.types)]
  /\ fpc' = "returned"
  /\ UNCHANGED <<graphVars, cascadeVars, depVars, snapVars, verVars, pubVars, fnArgs>>

LogNext == LogCall

LogSpec == LogInit /\ [][LogNext]_vars

LogReturned == fpc = "returned" /\ fnArgs.fn = "generateChangelog"

\* the declarations of the target in the k-th document, in order
TargetLines(k) ==
  SelectSeq(fnArgs.blocks[k], LAMBDA line : DeclName(line) = <<Target>>)

\* the blocks of the section with the heading h
BlocksHeaded(h) ==
  SelectSeq(fnResult.changelog.blocks, LAMBDA b : b.heading = h)

\* the message m is an item of a block with the heading h
ListedUnder(m, h) ==
  \E i \in 1..Len(fnResult.changelog.blocks) :
    /\ fnResult.changelog.blocks[i].heading = h
    /\ \E j \in 1..Len(fnResult.changelog.blocks[i].items) :
         fnResult.changelog.blocks[i].items[j] = m

\* C21: an @major declaration is parsed to the release type major with
\* isBreaking false; generateChangelog lists the message of a document that
\* declares the target with @major under the heading of the declared type
\* and not under Breaking Changes, and a section none of whose documents
\* declares the target with ! has no Breaking Changes block
C21_ExplicitMajorIsNotBreaking ==
  LogReturned =>
    /\ \A k \in 1..Len(fnArgs.docs) :
         \A i \in 1..Len(fnResult.releases[k]) :
           DeclSuffix(fnArgs.blocks[k][i]) = "@major" =>
             /\ fnResult.releases[k][i].type = "major"
             /\ ~fnResult.releases[k][i].isBreaking
    /\ \A k \in 1..Len(fnArgs.docs) :
         (TargetLines(k) # <<>> /\ DeclSuffix(TargetLines(k)[1]) = "@major") =>
           /\ ListedUnder(<<Messages[k]>>, DeclType(TargetLines(k)[1]))
           /\ ~ListedUnder(<<Messages[k]>>, BreakingHeading)
    /\ (\A k \in 1..Len(fnArgs.docs) : \A i \in 1..Len(TargetLines(k)) :
          DeclSuffix(TargetLines(k)[i]) # "!") =>
         BlocksHeaded(BreakingHeading) = <<>>

\* C21: a section generated from a chore@major document and a feat document
\* has a chore block and a feat block and no Breaking Changes block, while
\* the parser gave the target the release type major
C21_Witness ==
  /\ LogReturned
  /\ fnArgs.blocks = <<<<Decl("a", "chore", <<"@major">>)>>, <<Decl("a", "feat", NoSuffix)>>>>
  /\ fnResult.releases[1][1].type = "major"
  /\ ListedUnder(<<"m1">>, <<"chore">>)
  /\ ListedUnder(<<"m2">>, <<"feat">>)
  /\ BlocksHeaded(BreakingHeading) = <<>>


\* ------------------------------------------------------------------------
\* updateDependencyRange and updatePackageDependencies called on their own
\* ------------------------------------------------------------------------
\* what follows the first segment of a range: nothing, the rest of a
\* version, the rest of a version and a second comparator
RangeTails == {<<>>, <<"0", "0">>, <<"5", "0 <2", "0", "0">>}

\* the new versions
NewVersions == {<<"1", "1", "0">>, <<"0", "0", "1">>, <<"2", "0", "0">>, <<"0", "0", "0-1700000000">>}

\* the package the ranges point at, and a package without an update
Dep == "a"
Other == "x"

\* a manifest that names Dep in every section with the range given, and
\* Other in its dependencies
RangeManifest(range) ==
  [name |-> "b", version |-> <<"1", "0", "0">>,
   dependencies |-> [n \in {Dep, Other} |-> range],
   devDependencies |-> [n \in {Dep} |-> range],
   peerDependencies |-> [n \in {Dep} |-> range]]

\* the update map with the new version of Dep
RangeUpdates(v) ==
  [n \in {Dep} |-> [newVersion |-> v]]

RangeInit ==
  \E ws \in {"", "workspace:"}, op \in OperatorRuns, d \in RestStarts,
     tail \in RangeTails, v \in NewVersions :
    /\ ws \o op \o d # ""
    /\ fnArgs = [fn |-> "updateDependencyRange",
                 currentRange |-> <<ws \o op \o d>> \o tail,
                 newVersion |-> v,
                 ws |-> ws, op |-> op, d |-> d, tail |-> tail]
    /\ fnResult = <<>>
    /\ fpc = "called"
    /\ packages = EmptyMap
    /\ dependents = EmptyMap
    /\ CascadeIdle /\ DepIdle /\ SnapIdle /\ VerIdle /\ PubIdle

\* lines 169-194 and 205-232, each applied and applied again to its result
RangeCall ==
  /\ fpc = "called"
  /\ fnArgs.fn = "updateDependencyRange"
  /\ \E once \in {updateDependencyRange(fnArgs.currentRange, fnArgs.newVersion)},
        first \in {updatePackageDependencies(RangeManifest(fnArgs.currentRange),
                                             RangeUpdates(fnArgs.newVersion), <<Dep>>)} :
       fnResult' =
         [once |-> once,
          twice |-> updateDependencyRange(once, fnArgs.newVersion),
          first |-> first,
          second |-> updatePackageDependencies(first.packageJson,
                                               RangeUpdates(fnArgs.newVersion), <<Dep>>)]
  /\ fpc' = "returned"
  /\ UNCHANGED <<graphVars, cascadeVars, depVars, snapVars, verVars, pubVars, fnArgs>>

RangeNext == RangeCall

RangeSpec == RangeInit /\ [][RangeNext]_vars

RangeReturned == fpc = "returned" /\ fnArgs.fn = "updateDependencyRange"

\* the text of a version after an operator prefix
Prefixed(prefix, v) == <<prefix \o v[1]>> \o Tail(v)

\* C22: updateDependencyRange returns the range unchanged when it is
\* workspace:* or *; workspace: + op + v when the range is workspace:
\* followed by an operator and a version; otherwise op + v, op being the
\* (possibly empty) leading run of the characters ~ ^ > = <
C22_RangeKeepsOperator ==
  RangeReturned =>
    LET range == fnArgs.currentRange
        v == fnArgs.newVersion
    IN /\ (range = <<"workspace:*">> \/ range = <<"*">>) => fnResult.once = range
       /\ (fnArgs.ws = "workspace:" /\ range # <<"workspace:*">>) =>
            fnResult.once = Prefixed("workspace:" \o fnArgs.op, v)
       /\ (fnArgs.ws = "" /\ range # <<"*">>) =>
            fnResult.once = Prefixed(fnArgs.op, v)

\* C22: ^1.0.0 has been rewritten with 1.1.0 to ^1.1.0
C22_Witness ==
  /\ RangeReturned
  /\ fnArgs.currentRange = <<"^1", "0", "0">>
  /\ fnArgs.newVersion = <<"1", "1", "0">>
  /\ fnResult.once = <<"^1", "1", "0">>

\* C26: rewriting the result of a rewrite with the same version returns it
\* unchanged, and a second updatePackageDependencies with the same update
\* map changes no entry of the manifest and records no dependency update
C26_RewriteIsIdempotent ==
  RangeReturned =>
    /\ fnResult.twice = fnResult.once
    /\ fnResult.second.packageJson = fnResult.first.packageJson
    /\ fnResult.second.dependencyUpdates = <<>>

\* C26: the first application changed the three entries of the manifest
\* that name the updated package, the second one none
C26_Witness ==
  /\ RangeReturned
  /\ fnArgs.currentRange = <<"workspace:~1", "0", "0">>
  /\ fnResult.once # fnArgs.currentRange
  /\ Len(fnResult.first.dependencyUpdates) = 3
  /\ fnResult.second.dependencyUpdates = <<>>


\* ------------------------------------------------------------------------
\* the dependency entries of a version run
\* ------------------------------------------------------------------------
\* the manifest of n before the run
OrigManifest(n) == origDisk[PathOf(n)].json

\* the entries of n before the run: section and name of the dependency
Entries(n) ==
  UNION {{<<DepTypes[t], m>> : m \in DOMAIN OrigManifest(n)[DepTypes[t]]} :
           t \in 1..Len(DepTypes)}

\* the text an entry must have after the run
ExpectedRange(n, entry) ==
  IF entry[2] \in DOMAIN allUpdates
    THEN updateDependencyRange(OrigManifest(n)[entry[1]][entry[2]],
                               allUpdates[entry[2]].newVersion)
    ELSE OrigManifest(n)[entry[1]][entry[2]]

\* the entries of n whose text the run must change
ChangedEntries(n) ==
  {entry \in Entries(n) : ExpectedRange(n, entry) # OrigManifest(n)[entry[1]][entry[2]]}

\* C23: in a version run, for every package of the result that the apply
\* loop has handled and each of dependencies, devDependencies and
\* peerDependencies, every entry naming a package of the result holds the
\* range rewriter's result for that package's new version, every entry
\* naming a package outside the result is unchanged, and the records
\* {name, from, to} are those of the entries whose text changed, one for
\* each (none for a workspace:* or * entry)
C23_InternalRangesRewritten ==
  (VerRunning /\ vpc # "start") =>
    \A i \in 1..Len(verLog) :
      LET n == verLog[i].packageName
          records == verLog[i].dependencyUpdates
      IN /\ n \in DOMAIN allUpdates
         /\ \A entry \in Entries(n) :
              /\ packages[n].packageJson[entry[1]][entry[2]] = ExpectedRange(n, entry)
              /\ entry[2] \notin DOMAIN allUpdates =>
                   packages[n].packageJson[entry[1]][entry[2]]
                     = OrigManifest(n)[entry[1]][entry[2]]
              /\ (~dryRun /\ disk[PathOf(n)] = Stringify(packages[n].packageJson)) =>
                   disk[PathOf(n)].json[entry[1]][entry[2]] = ExpectedRange(n, entry)
         /\ \A t \in 1..Len(DepTypes) :
              DOMAIN packages[n].packageJson[DepTypes[t]]
                = DOMAIN OrigManifest(n)[DepTypes[t]]
         /\ Len(records) = Cardinality(ChangedEntries(n))
         /\ {records[k] : k \in 1..Len(records)}
              = {[name |-> entry[2],
                  from |-> OrigManifest(n)[entry[1]][entry[2]],
                  to |-> ExpectedRange(n, entry)] : entry \in ChangedEntries(n)}
         /\ \A k \in 1..Len(records) :
              /\ records[k].from # records[k].to
              /\ records[k].from \notin {<<"workspace:*">>, <<"*">>}

\* C23: the run is done; b, whose dependencies name a with workspace:*, d
\* with a caret range and a package outside the repository, was updated
\* together with a and d: one record, for d
C23_Witness ==
  /\ vpc = "done"
  /\ ~dryRun
  /\ {"a", "b", "d"} \subseteq DOMAIN allUpdates
  /\ OrigManifest("b").dependencies["a"] = <<"workspace:*">>
  /\ \E i \in 1..Len(verLog) :
       /\ verLog[i].packageName = "b"
       /\ Len(verLog[i].dependencyUpdates) = 1
       /\ verLog[i].dependencyUpdates[1].name = "d"
  /\ disk[PathOf("b")].json.dependencies["x"] = <<"^4", "17", "21">>


\* the index of the document a message belongs to
MsgIndex(m) == CHOOSE k \in 1..Len(Messages) : <<Messages[k]>> = m

\* the per-type blocks of the section, in the order of the text
TypeBlocks ==
  SelectSeq(fnResult.changelog.blocks,
            LAMBDA b : b.heading \notin {DependenciesHeading, BreakingHeading})

\* the index of a type in the configuration of the call, 0 when absent
ConfigIndex(t) ==
  IF \E i \in 1..Len(fnArgs.types) : fnArgs.types[i].type = t
    THEN Least({i \in 1..Len(fnArgs.types) : fnArgs.types[i].type = t})
    ELSE 0

\* the document in which the type of a block is met first
FirstEncounter(b) == MsgIndex(b.items[1])

\* the position of the block with the heading h among the blocks, 0 when
\* there is none
PositionOf(h) ==
  IF \E i \in 1..Len(fnResult.changelog.blocks) : fnResult.changelog.blocks[i].heading = h
    THEN Least({i \in 1..Len(fnResult.changelog.blocks) :
                  fnResult.changelog.blocks[i].heading = h})
    ELSE 0

\* C24: in the section generateChangelog returns, the Breaking Changes
\* block, when there is one, precedes every per-type block; the per-type
\* blocks stand in the order of their type's index in the configured types,
\* the types absent from the configuration after all configured ones, in
\* the order in which they are met first; the messages of a block stand in
\* the order of the input documents
C24_ChangelogOrder ==
  LogReturned =>
    /\ \A i \in 1..Len(fnResult.changelog.blocks) :
         /\ fnResult.changelog.blocks[i].items # <<>>
         /\ fnResult.changelog.blocks[i].heading
              \notin {DependenciesHeading, BreakingHeading} =>
              (PositionOf(BreakingHeading) < i /\ PositionOf(DependenciesHeading) < i)
         /\ fnResult.changelog.blocks[i].heading # DependenciesHeading =>
              \A j, k \in 1..Len(fnResult.changelog.blocks[i].items) :
                j < k => MsgIndex(fnResult.changelog.blocks[i].items[j])
                           <= MsgIndex(fnResult.changelog.blocks[i].items[k])
    /\ \A i, j \in 1..Len(TypeBlocks) :
         i < j =>
           LET a == TypeBlocks[i]
               b == TypeBlocks[j]
           IN /\ a.heading # b.heading
              /\ ConfigIndex(b.heading) # 0 =>
                   (ConfigIndex(a.heading) # 0
                      /\ ConfigIndex(a.heading) < ConfigIndex(b.heading))
              /\ (ConfigIndex(a.heading) = 0 /\ ConfigIndex(b.heading) = 0) =>
                   FirstEncounter(a) < FirstEncounter(b)

\* C24: under the configuration feat, fix, chore the documents declaring
\* x, fix! and text give the Breaking Changes block first, then the blocks
\* of the two types that are not configured, in the order they were met
C24_Witness ==
  /\ LogReturned
  /\ fnArgs.types = DefaultTypes
  /\ fnArgs.via = "direct"
  /\ fnArgs.dependencyUpdates = <<>>
  /\ fnArgs.blocks = <<<<Decl("a", "x", NoSuffix)>>, <<Decl("a", "fix", <<"!">>)>>,
                       <<Decl("a", "text", NoSuffix)>>>>
  /\ [i \in 1..Len(fnResult.changelog.blocks) |-> fnResult.changelog.blocks[i].heading]
       = <<BreakingHeading, <<"x">>, <<"text">>>>


\* C25: generateChangelog buckets every frontmatter line that declares the
\* target, in every document: the message of the document is listed under
\* Breaking Changes for each such line with the suffix ! and under the
\* declared type for each other such line, so that a target with a breaking
\* declaration always has a Breaking Changes block
C25_EveryLineBucketed ==
  LogReturned =>
    /\ \A k \in 1..Len(fnArgs.docs) :
         \A i \in 1..Len(TargetLines(k)) :
           IF DeclSuffix(TargetLines(k)[i]) = "!"
             THEN ListedUnder(<<Messages[k]>>, BreakingHeading)
             ELSE ListedUnder(<<Messages[k]>>, DeclType(TargetLines(k)[i]))
    /\ (\E k \in 1..Len(fnArgs.docs) : \E i \in 1..Len(TargetLines(k)) :
          DeclSuffix(TargetLines(k)[i]) = "!") =>
         BlocksHeaded(BreakingHeading) # <<>>

\* C25: one document declares the target with fix and then with feat!; the
\* parser returns both releases, the second breaking, and the section
\* version() generates lists the message twice under fix and has no
\* Breaking Changes block
C25_Witness ==
  /\ LogReturned
  /\ fnArgs.via = "version"
  /\ fnArgs.dependencyUpdates = <<>>
  /\ fnArgs.blocks = <<<<Decl("a", "fix", NoSuffix), Decl("a", "feat", <<"!">>)>>>>
  /\ fnResult.releases[1][2].isBreaking
  /\ fnResult.changelog.blocks = <<Block(<<"fix">>, <<<<"m1">>, <<"m1">>>>)>>


\* ------------------------------------------------------------------------
\* Order of the steps of a snapshot run
\* ------------------------------------------------------------------------
\* the manifest of every included package is on disk as line 120 writes it,
\* with the snapshot version and every entry naming an included package
\* pinned to it
SnapshotOnDisk ==
  \A n \in Included :
    /\ disk[PathOf(n)].format = Stringify(packages[n].packageJson).format
    /\ disk[PathOf(n)].json.version = snapshotVersion
    /\ \A t \in 1..Len(DepTypes) :
         \A d \in DOMAIN disk[PathOf(n)].json[DepTypes[t]] :
           d \in ListSet(allPackagesToUpdate) =>
             disk[PathOf(n)].json[DepTypes[t]][d] = snapshotVersion

\* C27: in a snapshot run that is not a dry run, a package is handed to
\* publishToNpm only when the manifest of every included package is on disk
\* with the snapshot version and pinned internal ranges and no manifest has
\* been restored; the publishes are made one at a time, in the order of the
\* included set; a manifest is restored only when the publish loop has
\* handed over every included package that is not private (or never
\* started), and no publish follows a restore
C27_SnapshotStepOrder ==
  [][/\ publishLog' # publishLog =>
          /\ ~dryRun
          /\ SnapshotOnDisk
          /\ restoreLog = <<>> /\ restoreLog' = <<>>
          /\ disk' = disk
          /\ publishLog' = Append(publishLog, publishLog'[Len(publishLog')])
          /\ publishLog'[Len(publishLog')].name = allPackagesToUpdate[sidx]
          /\ [i \in 1..Len(publishLog') |-> publishLog'[i].name] = Publishable(sidx)
     /\ restoreLog' # restoreLog =>
          /\ publishLog' = publishLog
          /\ \/ PublishedNames = Publishable(Len(allPackagesToUpdate))
             \/ publishLog = <<>> /\ spc = "catch"]_vars

\* C27: two packages have been published and a third is still to come; the
\* manifests of all included packages are on disk with the snapshot version,
\* b's range on a pinned, and nothing has been restored
C27_Witness ==
  /\ spc = "publish"
  /\ ~dryRun
  /\ Len(publishLog) = 2
  /\ sidx <= Len(allPackagesToUpdate)
  /\ {"a", "b"} \subseteq Included
  /\ SnapshotOnDisk
  /\ disk[PathOf("b")].json.dependencies["a"] = snapshotVersion
  /\ origDisk[PathOf("b")].json.dependencies["a"] # snapshotVersion
  /\ restoreLog = <<>>


\* ------------------------------------------------------------------------
\* The two cascade engines on the same graph
\* ------------------------------------------------------------------------
\* the changeset-driven packages, as the list a Set of them iterates
ChangesetDriven == KeysInOrder(NameOrder, DOMAIN initialUpdates)

\* C28: when every changeset-driven package exists in the graph and
\* cascadeVersionUpdates returns under policy patch, the names of its result
\* are the names cascadeDependents returns for the changeset-driven packages
\* on the same graph, whatever the bump kinds of those packages
C28_EnginesAgree ==
  (cpc = "done" /\ updatePolicy = "patch" /\ DOMAIN initialUpdates \subseteq DOMAIN packages) =>
    DOMAIN allUpdates = ListSet(cascadeDependents(ChangesetDriven, dependents))

\* C28: under policy patch a package with a patch changeset and one with a
\* major changeset gave a result that holds a package depending on them
\* only through another package, and the snapshot engine returns the same
\* names
C28_Witness ==
  /\ cpc = "done"
  /\ updatePolicy = "patch"
  /\ DOMAIN initialUpdates \subseteq DOMAIN packages
  /\ \E p, q \in DOMAIN initialUpdates :
       /\ initialUpdates[p].releaseType = "patch"
       /\ initialUpdates[q].releaseType = "major"
       /\ \E n \in TransitiveDependents(p) \ DirectDependents(p) :
            /\ n \notin DOMAIN initialUpdates
            /\ n \in DOMAIN allUpdates
            /\ n \in ListSet(cascadeDependents(ChangesetDriven, dependents))
  /\ DOMAIN allUpdates # DOMAIN packages


\* ------------------------------------------------------------------------
\* Explicit promotion of a 0.Y.Z package
\* ------------------------------------------------------------------------
\* a changeset document of the run declares n with the suffix @major
HasExplicitMajor(n) ==
  \E k \in 1..Len(changesetDocs) :
    \E i \in 1..Len(changesetDocs[k]) :
      /\ Len(changesetDocs[k][i]) >= 7
      /\ DeclName(changesetDocs[k][i]) = <<n>>
      /\ DeclSuffix(changesetDocs[k][i]) = "@major"

\* a changeset document of the run declares n with the suffix !
HasBreakingSuffix(n) ==
  \E k \in 1..Len(changesetDocs) :
    \E i \in 1..Len(changesetDocs[k]) :
      /\ Len(changesetDocs[k][i]) >= 7
      /\ DeclName(changesetDocs[k][i]) = <<n>>
      /\ DeclSuffix(changesetDocs[k][i]) = "!"

DeclaredBy(k) ==
  {parseChangesetFile(changesetDocs[k], configTypes)[i].packageName[1] :
     i \in 1..Len(parseChangesetFile(changesetDocs[k], configTypes))}

====
